---- MODULE Spec2Model ----
(***************************************************************************)
(* Team-identity resolution of the GVSA standings database.                *)
(*                                                                         *)
(* A name is a sequence of one-character strings, so that the normalizer,  *)
(* the name parser and the similarity score are computed character by      *)
(* character as the Python code computes them.  An absent string (Python   *)
(* None, or the '' PonyORM stores for an unset Optional(str)) is <<>>: the *)
(* code only ever tests these values for truthiness.                       *)
(***************************************************************************)
EXTENDS Integers, Sequences, FiniteSets, TLC

(***************************************************************************)
(* Characters                                                              *)
(***************************************************************************)
UpperSeq ==
    << "A","B","C","D","E","F","G","H","I","J","K","L","M",
       "N","O","P","Q","R","S","T","U","V","W","X","Y","Z" >>

LowerSeq ==
    << "a","b","c","d","e","f","g","h","i","j","k","l","m",
       "n","o","p","q","r","s","t","u","v","w","x","y","z" >>

DigitSeq ==
    << "0","1","2","3","4","5","6","7","8","9" >>

Range(s) ==
    { s[i] : i \in DOMAIN s }

\* the element of a one-element set: The({ F(x) : x \in {e} }) is F(e), with e
\* evaluated once
The(S) ==
    CHOOSE x \in S : TRUE

IsDigit(c) ==
    c \in Range(DigitSeq)

IsAlpha(c) ==
    c \in Range(UpperSeq) \cup Range(LowerSeq)

\* \w of the re module on the ASCII characters: letters, digits and the
\* underscore.  Letters and digits outside ASCII are not among the characters
\* of the names modelled
IsWord(c) ==
    IsDigit(c) \/ IsAlpha(c) \/ c = "_"

\* the 29 characters for which str.isspace() is true: tab, line feed, vertical
\* tab, form feed, carriage return, U+001C to U+001F and the space, and the
\* whitespace outside ASCII.  A character outside ASCII is written as the name
\* of its code point, one string for one character
SpaceChars ==
    {"\t", "\n", "", "\f", "\r", "", "", "", "", " ",
     "U+0085", "U+00A0", "U+1680", "U+2000", "U+2001", "U+2002", "U+2003",
     "U+2004", "U+2005", "U+2006", "U+2007", "U+2008", "U+2009", "U+200A",
     "U+2028", "U+2029", "U+202F", "U+205F", "U+3000"}

\* \s of the re module, and the characters str.strip() / str.split() remove
IsSpace(c) ==
    c \in SpaceChars

IndexIn(c, s) ==
    CHOOSE i \in DOMAIN s : s[i] = c

ToLower(c) ==
    IF c \in Range(UpperSeq) THEN LowerSeq[IndexIn(c, UpperSeq)] ELSE c

ToUpper(c) ==
    IF c \in Range(LowerSeq) THEN UpperSeq[IndexIn(c, LowerSeq)] ELSE c

DigitVal(c) ==
    IndexIn(c, DigitSeq) - 1

\* str.lower()
Lower(s) ==
    [i \in DOMAIN s |-> ToLower(s[i])]

\* str.upper()
Upper(s) ==
    [i \in DOMAIN s |-> ToUpper(s[i])]

(***************************************************************************)
(* String helpers (Python str methods and the regular expressions used)    *)
(***************************************************************************)
\* s[i:] with a 1-based first index
From(s, i) ==
    SubSeq(s, i, Len(s))

\* number of leading characters of s in the set cs
LeadCount(s, cs) ==
    IF \E i \in DOMAIN s : s[i] \notin cs
    THEN (CHOOSE i \in DOMAIN s : s[i] \notin cs /\ \A j \in 1..(i-1) : s[j] \in cs) - 1
    ELSE Len(s)

\* number of trailing characters of s in the set cs
TrailCount(s, cs) ==
    IF \E i \in DOMAIN s : s[i] \notin cs
    THEN Len(s) - (CHOOSE i \in DOMAIN s : s[i] \notin cs /\ \A j \in (i+1)..Len(s) : s[j] \in cs)
    ELSE Len(s)

\* str.lstrip(chars) / str.strip(chars)
LStripSet(s, cs) ==
    From(s, LeadCount(s, cs) + 1)

StripSet(s, cs) ==
    IF \A i \in DOMAIN s : s[i] \in cs
    THEN << >>
    ELSE SubSeq(s, LeadCount(s, cs) + 1, Len(s) - TrailCount(s, cs))

\* str.strip()
Strip(s) ==
    StripSet(s, SpaceChars)

\* re.sub(r'\s+', ' ', s), which is also ' '.join(s.split()) once s is stripped
RECURSIVE CollapseSpaces(_)
CollapseSpaces(s) ==
    IF s = << >> THEN << >>
    ELSE IF IsSpace(s[1])
         THEN << " " >> \o CollapseSpaces(LStripSet(s, SpaceChars))
         ELSE << s[1] >> \o CollapseSpaces(Tail(s))

\* ' '.join(name.split())
JoinSplit(s) ==
    CollapseSpaces(Strip(s))

\* whether t occurs in s starting at position i
OccursAt(s, t, i) ==
    /\ i >= 1
    /\ i + Len(t) - 1 <= Len(s)
    /\ SubSeq(s, i, i + Len(t) - 1) = t

\* t in s
Contains(s, t) ==
    \E i \in 1..(Len(s) + 1) : OccursAt(s, t, i)

\* re.sub(r'\s+SUF\s*$', '', s): the leftmost match starts at the first space of
\* the whitespace run before the last SUF, which must be followed by spaces only
StripSuffixToken(s, suf) ==
    LET body == SubSeq(s, 1, Len(s) - TrailCount(s, SpaceChars))
        k    == Len(body) - Len(suf)
        head == SubSeq(body, 1, k)
    IN  IF /\ k >= 1
           /\ OccursAt(body, suf, k + 1)
           /\ IsSpace(body[k])
        THEN SubSeq(head, 1, k - TrailCount(head, SpaceChars))
        ELSE s

(***************************************************************************)
(* TeamMatcher.normalize_name                                              *)
(***************************************************************************)
normalize_name(name) ==
    LET joined     == JoinSplit(name)
        lowered    == Lower(joined)
        withoutFc  == StripSuffixToken(lowered, << "f", "c" >>)
        withoutSc  == StripSuffixToken(withoutFc, << "s", "c" >>)
    IN  Strip(withoutSc)

(***************************************************************************)
(* team_name_parser.parse_team_name                                        *)
(***************************************************************************)
NoYear == -1

NoGender == "none"

IsBG(c) ==
    ToUpper(c) \in {"B", "G"}

\* \b after a word character at position e: the end of the name or a non-word character
BoundaryAfter(s, e) ==
    e = Len(s) \/ ~IsWord(s[e + 1])

\* \b before a word character at position p
BoundaryBefore(s, p) ==
    p = 1 \/ ~IsWord(s[p - 1])

DigitsAt(s, i, n) ==
    /\ i >= 1
    /\ i + n - 1 <= Len(s)
    /\ \A j \in i..(i + n - 1) : IsDigit(s[j])

RECURSIVE NumberOf(_)
NumberOf(ds) ==
    IF ds = << >> THEN 0
    ELSE 10 * NumberOf(SubSeq(ds, 1, Len(ds) - 1)) + DigitVal(ds[Len(ds)])

\* an apostrophe pattern that matches nowhere
ApostrophePatternAt_Never(s, i) ==
    FALSE

\* r"'(\d{2})[BG]\b" with re.IGNORECASE, matched at position i
ApostrophePatternAt(s, i) ==
    /\ i + 3 <= Len(s)
    /\ s[i] = "'"
    /\ DigitsAt(s, i + 1, 2)
    /\ IsBG(s[i + 3])
    /\ BoundaryAfter(s, i + 3)

\* r"(\d{4})[BG]\b" with re.IGNORECASE, matched at position i
YearGenderPatternAt(s, i) ==
    /\ i + 4 <= Len(s)
    /\ DigitsAt(s, i, 4)
    /\ IsBG(s[i + 4])
    /\ BoundaryAfter(s, i + 4)

\* r"'(\d{2})\b", matched at position i
ApostropheNoGenderAt(s, i) ==
    /\ i + 2 <= Len(s)
    /\ s[i] = "'"
    /\ DigitsAt(s, i + 1, 2)
    /\ BoundaryAfter(s, i + 2)

\* r'\b(20[0-3]\d)\b', matched at position i
YearOnlyPatternAt(s, i) ==
    /\ i + 3 <= Len(s)
    /\ BoundaryBefore(s, i)
    /\ s[i] = "2"
    /\ s[i + 1] = "0"
    /\ s[i + 2] \in {"0", "1", "2", "3"}
    /\ IsDigit(s[i + 3])
    /\ BoundaryAfter(s, i + 3)

\* century inference of the two-digit patterns
TwoDigitYear(n) ==
    IF n <= 30 THEN 2000 + n ELSE 1900 + n

GenderOfChar(c) ==
    IF ToUpper(c) = "B" THEN "Boys"
    ELSE IF ToUpper(c) = "G" THEN "Girls"
    ELSE NoGender

\* gender inferred from the words boys / boy / girls / girl in the name
GenderFromContext(name) ==
    LET low == Lower(name)
    IN  IF Contains(low, <<"b","o","y","s">>) \/ Contains(low, <<" ","b","o","y">>)
        THEN "Boys"
        ELSE IF Contains(low, <<"g","i","r","l","s">>) \/ Contains(low, <<" ","g","i","r","l">>)
             THEN "Girls"
             ELSE NoGender

\* club name: the text before the match
ClubPart(name, start) ==
    LET part == Strip(SubSeq(name, 1, start - 1))
    IN  IF part = << >> THEN << >>
        ELSE StripSet(CollapseSpaces(part), {" ", "-"})

\* designation: the text after the match
DesignationPart(name, stop) ==
    LET part == Strip(From(name, stop + 1))
    IN  IF part = << >> THEN << >>
        ELSE Strip(LStripSet(part, {"-"} \cup SpaceChars))

ParseResult(club, year, gender, desig, ok) ==
    [club_name |-> club, birth_year |-> year, gender |-> gender,
     designation |-> desig, parsed |-> ok]

Unparsed ==
    ParseResult(<< >>, NoYear, NoGender, << >>, FALSE)

\* the leftmost position at which a pattern matches (re.search)
FirstMatch(s, At(_, _)) ==
    CHOOSE i \in DOMAIN s : At(s, i) /\ \A j \in 1..(i - 1) : ~At(s, j)

Matches(s, At(_, _)) ==
    \E i \in DOMAIN s : At(s, i)

parse_team_name(team_name) ==
    LET name == Strip(team_name)
    IN  IF name = << >> THEN Unparsed
        ELSE IF Matches(name, ApostrophePatternAt)
        THEN LET p == FirstMatch(name, ApostrophePatternAt)
             IN  ParseResult(ClubPart(name, p),
                             TwoDigitYear(NumberOf(SubSeq(name, p + 1, p + 2))),
                             GenderOfChar(name[p + 3]),
                             DesignationPart(name, p + 3), TRUE)
        ELSE IF Matches(name, YearGenderPatternAt)
        THEN LET p == FirstMatch(name, YearGenderPatternAt)
             IN  ParseResult(ClubPart(name, p),
                             NumberOf(SubSeq(name, p, p + 3)),
                             GenderOfChar(name[p + 4]),
                             DesignationPart(name, p + 4), TRUE)
        ELSE IF Matches(name, ApostropheNoGenderAt)
        THEN LET p == FirstMatch(name, ApostropheNoGenderAt)
             IN  ParseResult(ClubPart(name, p),
                             TwoDigitYear(NumberOf(SubSeq(name, p + 1, p + 2))),
                             GenderFromContext(name),
                             DesignationPart(name, p + 2), TRUE)
        ELSE IF Matches(name, YearOnlyPatternAt)
        THEN LET p == FirstMatch(name, YearOnlyPatternAt)
             IN  ParseResult(ClubPart(name, p),
                             NumberOf(SubSeq(name, p, p + 3)),
                             GenderFromContext(name),
                             DesignationPart(name, p + 3), TRUE)
        ELSE Unparsed

(***************************************************************************)
(* thefuzz: process.extractOne(..., scorer=fuzz.ratio), as find_matching_  *)
(* team uses it.  Both strings go through the default processor, and the   *)
(* score is the normalized indel similarity 200 * LCS / (len1 + len2),     *)
(* rounded to an integer (ties to even, as Python's round).                *)
(***************************************************************************)
\* utils.full_process: lower-case, non-alphanumerics to spaces, strip
full_process(s) ==
    Strip([i \in DOMAIN s |-> IF IsWord(s[i]) THEN ToLower(s[i]) ELSE " "])

Max(a, b) ==
    IF a >= b THEN a ELSE b

\* one row of the longest-common-subsequence table: row[k] is column k - 1
RECURSIVE LcsRowFill(_, _, _, _)
LcsRowFill(prevRow, c, b, row) ==
    IF Len(row) = Len(b) + 1 THEN row
    ELSE LET j == Len(row)
         IN  LcsRowFill(prevRow, c, b,
                        Append(row, IF c = b[j] THEN prevRow[j] + 1
                                    ELSE Max(prevRow[j + 1], row[j])))

RECURSIVE LcsRows(_, _, _, _)
LcsRows(a, b, i, prevRow) ==
    IF i > Len(a) THEN prevRow[Len(b) + 1]
    ELSE The({ LcsRows(a, b, i + 1, row) : row \in { LcsRowFill(prevRow, a[i], b, << 0 >>) } })

LcsLen(a, b) ==
    LcsRows(a, b, 1, [k \in 1..(Len(b) + 1) |-> 0])

\* int(round(100 * num / den)) for den > 0, ties to even
RoundPercent(num, den) ==
    LET q == (100 * num) \div den
        r == (100 * num) % den
    IN  IF 2 * r > den THEN q + 1
        ELSE IF 2 * r < den THEN q
        ELSE IF q % 2 = 0 THEN q ELSE q + 1

(***************************************************************************)
(* TeamMatcher.extract_club_name                                           *)
(***************************************************************************)
\* length of the match of \bU\d{1,2}\b at position i, 0 if none (greedy)
AgeTokenLenAt(s, i) ==
    IF ~(s[i] = "U" /\ BoundaryBefore(s, i)) THEN 0
    ELSE IF DigitsAt(s, i + 1, 2) /\ BoundaryAfter(s, i + 2) THEN 3
    ELSE IF DigitsAt(s, i + 1, 1) /\ BoundaryAfter(s, i + 1) THEN 2
    ELSE 0

\* \b\d{1,2}[BG]\b
ShortYearLenAt(s, i) ==
    IF ~(IsDigit(s[i]) /\ BoundaryBefore(s, i)) THEN 0
    ELSE IF /\ DigitsAt(s, i, 2) /\ i + 2 <= Len(s)
            /\ s[i + 2] \in {"B", "G"} /\ BoundaryAfter(s, i + 2) THEN 3
    ELSE IF /\ i + 1 <= Len(s)
            /\ s[i + 1] \in {"B", "G"} /\ BoundaryAfter(s, i + 1) THEN 2
    ELSE 0

\* \b\d{4}[BG]\b
LongYearLenAt(s, i) ==
    IF /\ BoundaryBefore(s, i) /\ DigitsAt(s, i, 4) /\ i + 4 <= Len(s)
       /\ s[i + 4] \in {"B", "G"} /\ BoundaryAfter(s, i + 4) THEN 5
    ELSE 0

\* \b\d{2}\b
TwoDigitLenAt(s, i) ==
    IF BoundaryBefore(s, i) /\ DigitsAt(s, i, 2) /\ BoundaryAfter(s, i + 1) THEN 2
    ELSE 0

\* re.sub(pattern, '', s): the non-overlapping matches, left to right, removed
\* (lens[i] is the length of the match starting at position i, 0 if none)
RECURSIVE RemoveFrom(_, _, _)
RemoveFrom(s, i, lens) ==
    IF i > Len(s) THEN << >>
    ELSE IF lens[i] > 0 THEN RemoveFrom(s, i + lens[i], lens)
    ELSE << s[i] >> \o RemoveFrom(s, i + 1, lens)

RemoveAll(s, LenAt(_, _)) ==
    RemoveFrom(s, 1, [i \in DOMAIN s |-> LenAt(s, i)])

DescriptorWords ==
    { <<"b","l","a","c","k">>, <<"w","h","i","t","e">>, <<"g","r","e","e","n">>,
      <<"b","l","u","e">>, <<"r","e","d">>, <<"y","e","l","l","o","w">>,
      <<"g","o","l","d">>, <<"s","i","l","v","e","r">>, <<"e","l","i","t","e">>,
      <<"p","r","e","m","i","e","r">>, <<"l","o","b","o","s">>,
      <<"r","o","v","e","r","s">>, <<"w","o","l","v","e","s">>,
      <<"e","a","g","l","e","s">>, <<"h","a","w","k","s">> }

\* str.split(): the words of s
RECURSIVE Words(_)
Words(s) ==
    LET t == LStripSet(s, SpaceChars)
        n == LeadCount(t, { t[i] : i \in DOMAIN t } \ SpaceChars)
    IN  IF t = << >> THEN << >>
        ELSE << SubSeq(t, 1, n) >> \o Words(From(t, n + 1))

\* the leading words up to the first colour / descriptor word, joined by spaces
RECURSIVE ClubWords(_)
ClubWords(ws) ==
    IF ws = << >> THEN << >>
    ELSE IF Lower(ws[1]) \in DescriptorWords THEN << >>
    ELSE IF Len(ws) > 1 /\ Lower(ws[2]) \notin DescriptorWords
         THEN ws[1] \o << " " >> \o ClubWords(Tail(ws))
         ELSE ws[1]

extract_club_name(team_name) ==
    LET n1   == RemoveAll(team_name, AgeTokenLenAt)
        n2   == RemoveAll(n1, ShortYearLenAt)
        n3   == RemoveAll(n2, LongYearLenAt)
        n4   == RemoveAll(n3, TwoDigitLenAt)
        club == Strip(CollapseSpaces(Strip(ClubWords(Words(n4)))))
    IN  IF Len(club) < 2 THEN << >> ELSE club

(***************************************************************************)
(* The raw team names the operations are called with: stripped and not     *)
(* blank, as the standings and CSV parsers deliver them.                   *)
(***************************************************************************)
\* "NUSC 2013B"
N_Nusc13B ==
    << "N", "U", "S", "C", " ", "2", "0", "1", "3", "B" >>

\* "NUSC 2013B Green"
N_Nusc13BGreen ==
    << "N", "U", "S", "C", " ", "2", "0", "1", "3", "B", " ", "G", "r", "e", "e", "n" >>

\* "NUSC 2013B White"
N_Nusc13BWhite ==
    << "N", "U", "S", "C", " ", "2", "0", "1", "3", "B", " ", "W", "h", "i", "t", "e" >>

\* "NUSC FC 2013B White"
N_NuscFc13BWhite ==
    << "N", "U", "S", "C", " ", "F", "C", " ", "2", "0", "1", "3", "B", " ", "W", "h", "i", "t", "e" >>

\* "NUSC 2013G Green"
N_Nusc13GGreen ==
    << "N", "U", "S", "C", " ", "2", "0", "1", "3", "G", " ", "G", "r", "e", "e", "n" >>

\* "Rapids FC"
N_RapidsFc ==
    << "R", "a", "p", "i", "d", "s", " ", "F", "C" >>

\* "Rapids"
N_Rapids ==
    << "R", "a", "p", "i", "d", "s" >>

\* "Rapids FC 15B Black"
N_Rapids15BBlack ==
    << "R", "a", "p", "i", "d", "s", " ", "F", "C", " ", "1", "5", "B", " ", "B", "l", "a", "c", "k" >>

\* "Rapids 15B Black"
N_Rapids15BBlackNoFc ==
    << "R", "a", "p", "i", "d", "s", " ", "1", "5", "B", " ", "B", "l", "a", "c", "k" >>

\* "2013B"
N_2013B ==
    << "2", "0", "1", "3", "B" >>

\* "Lakeshore Premier"
N_LakeshorePremier ==
    << "L", "a", "k", "e", "s", "h", "o", "r", "e", " ", "P", "r", "e", "m", "i", "e", "r" >>

\* "Lakeshore Premier White": scores 85 against "Lakeshore Premier"
N_LakeshorePremierWhite ==
    N_LakeshorePremier \o << " ", "W", "h", "i", "t", "e" >>

\* "Lakeshore Premier Whites": scores 83 against "Lakeshore Premier" and 98
\* against "Lakeshore Premier White"
N_LakeshorePremierWhites ==
    N_LakeshorePremierWhite \o << "s" >>

\* "Lakeshore United"
N_LakeshoreUnited ==
    << "L", "a", "k", "e", "s", "h", "o", "r", "e", " ", "U", "n", "i", "t", "e", "d" >>

\* "Lakeshore United Green": scores 84 against "Lakeshore United"
N_LakeshoreUnitedGreen ==
    N_LakeshoreUnited \o << " ", "G", "r", "e", "e", "n" >>

\* the raw names get_or_create_team is called with on its own: names as the
\* parsers deliver them, stripped and not empty
ResolveNames ==
    { N_Nusc13B, N_Nusc13BGreen, N_Nusc13GGreen, N_RapidsFc,
      N_Rapids15BBlack, N_Rapids15BBlackNoFc }

(***************************************************************************)
(* The store: the rows of each entity in insertion (primary key) order.    *)
(* A row's id is its position.  An unset birth_year is NoYear, an unset    *)
(* gender NoGender, an unset string << >>, an unset club 0.                *)
(***************************************************************************)
NoTeam == 0

NoClub == 0

\* the value the store keeps of a str attribute: its outer whitespace is
\* stripped before the value is checked and stored
Stored(value) ==
    Strip(value)

\* a Required(str) attribute refuses a value that is empty once stripped, with a
\* ValueError: in a new row, in an assignment and in the keywords of get()
RequiredRefuses(value) ==
    Stored(value) = << >>

EmptyDb ==
    [teams |-> << >>, clubs |-> << >>, seasons |-> << >>,
     divisions |-> << >>, team_seasons |-> << >>, matches |-> << >>]

Min(S) ==
    CHOOSE x \in S : \A y \in S : x <= y

\* Python truthiness of an optional birth year
HasYear(y) ==
    y # NoYear /\ y # 0

\* a Team.get that never finds the row
TeamGet_NeverFinds(teams, canon) ==
    NoTeam

\* Team.get(canonical_name = canon)
TeamGet(teams, canon) ==
    LET found == { i \in DOMAIN teams : teams[i].canonical_name = canon }
    IN  IF found = {} THEN NoTeam ELSE Min(found)

\* Club.get(canonical_name = canon)
ClubGet(clubs, canon) ==
    LET found == { i \in DOMAIN clubs : clubs[i].canonical_name = canon }
    IN  IF found = {} THEN NoClub ELSE Min(found)

(***************************************************************************)
(* TeamMatcher.find_team_by_birth_year.  queryFails: the select raised.    *)
(***************************************************************************)
\* lines 196-201: the teams of the birth year, the gender and the normalized club
Candidates(teams, birth_year, gender, normalized_club) ==
    { i \in DOMAIN teams :
        /\ teams[i].birth_year = birth_year
        /\ teams[i].gender = gender
        /\ teams[i].base_club_name = normalized_club }

\* lines 210-214: the candidates whose designation equals the parsed one, case ignored
DesignationMatches(teams, candidates, designation) ==
    The({ { i \in candidates : /\ teams[i].designation # << >>
                               /\ Upper(teams[i].designation) = upper } :
          upper \in { Upper(designation) } })

\* a structured match that gives up when no stored designation equals the parsed one
find_team_by_birth_year_ExactOnly(teams, birth_year, gender, club_name, designation, queryFails) ==
    IF queryFails THEN NoTeam
    ELSE The({ IF candidates = {} THEN NoTeam
               ELSE IF designation = << >> THEN Min(candidates)
               ELSE IF DesignationMatches(teams, candidates, designation) # {}
                    THEN Min(DesignationMatches(teams, candidates, designation))
               ELSE NoTeam :
               candidates \in { Candidates(teams, birth_year, gender,
                                           normalize_name(club_name)) } })

\* a structured match that always takes the first candidate
find_team_by_birth_year_FirstCandidate(teams, birth_year, gender, club_name, designation, queryFails) ==
    IF queryFails THEN NoTeam
    ELSE The({ IF candidates = {} THEN NoTeam ELSE Min(candidates) :
               candidates \in { Candidates(teams, birth_year, gender,
                                           normalize_name(club_name)) } })

find_team_by_birth_year(teams, birth_year, gender, club_name, designation, queryFails) ==
    IF queryFails THEN NoTeam
    ELSE The({ IF candidates = {} THEN NoTeam
               ELSE IF designation # << >> /\ DesignationMatches(teams, candidates,
                                                                  designation) # {}
                    THEN Min(DesignationMatches(teams, candidates, designation))
               ELSE Min(candidates) :
               candidates \in { Candidates(teams, birth_year, gender,
                                           normalize_name(club_name)) } })

(***************************************************************************)
(* TeamMatcher.find_matching_team                                          *)
(***************************************************************************)
\* a threshold one point stricter
FuzzyThreshold_Stricter == 85 + 1

FuzzyThreshold == 85

\* the score of one choice as the fraction 2 * LCS / (len1 + len2) of the
\* processed strings; two empty strings score 1
ChoiceScore(q, choice) ==
    The({ IF Len(q) + Len(c) = 0 THEN [num |-> 1, den |-> 1]
          ELSE [num |-> 2 * LcsLen(q, c), den |-> Len(q) + Len(c)] :
          c \in { full_process(choice) } })

\* the scores of the canonical names of the teams, in the order of the list
Scores(query, teams) ==
    The({ [j \in DOMAIN teams |-> ChoiceScore(q, teams[j].canonical_name)] @@ << >> :
          q \in { full_process(query) } })

\* the score sa is strictly above the score sb
ScoreAbove(sa, sb) ==
    sa.num * sb.den > sb.num * sa.den

\* process.extractOne: the first choice with the highest score
BestChoice(scores) ==
    CHOOSE i \in DOMAIN scores :
        /\ \A j \in DOMAIN scores : ~ScoreAbove(scores[j], scores[i])
        /\ \A j \in 1..(i - 1) : ScoreAbove(scores[i], scores[j])

\* the rounded score extractOne reports for the best choice
BestScore(scores) ==
    RoundPercent(scores[BestChoice(scores)].num, scores[BestChoice(scores)].den)

find_matching_team(team_name, existing_teams) ==
    IF existing_teams = << >> THEN NoTeam
    ELSE The({ IF BestScore(scores) >= FuzzyThreshold
               THEN TeamGet(existing_teams,
                            existing_teams[BestChoice(scores)].canonical_name)
               ELSE NoTeam :
               scores \in { Scores(normalize_name(team_name), existing_teams) } })

(***************************************************************************)
(* GVSA_Database.get_or_create_club                                        *)
(***************************************************************************)
\* the club of the normalized name, else a new one, committed; refused when
\* the normalized name is empty (Club.get raises ValueError, line 391) or the
\* new row has an empty name
get_or_create_club(d, club_name) ==
    The({ The({ IF RequiredRefuses(normalized)
                THEN [db |-> d, club |-> NoClub, refused |-> TRUE]
                ELSE IF club # NoClub THEN [db |-> d, club |-> club, refused |-> FALSE]
                ELSE IF RequiredRefuses(club_name)
                THEN [db |-> d, club |-> NoClub, refused |-> TRUE]
                ELSE [db   |-> [d EXCEPT !.clubs =
                                  Append(@, [name |-> Stored(club_name),
                                             canonical_name |-> Stored(normalized)])],
                      club |-> Len(d.clubs) + 1, refused |-> FALSE] :
                club \in { ClubGet(d.clubs, normalized) } }) :
          normalized \in { normalize_name(club_name) } })

(***************************************************************************)
(* GVSA_Database.get_or_create_team                                        *)
(***************************************************************************)
\* lines 425-440: the structured match, tried when the name parses with a
\* birth year, a gender and a club
StructuredMatch(teams, team_name, queryFails) ==
    The({ IF /\ parsed.parsed /\ HasYear(parsed.birth_year)
             /\ parsed.gender # NoGender /\ parsed.club_name # << >>
          THEN find_team_by_birth_year(teams, parsed.birth_year, parsed.gender,
                                       parsed.club_name, parsed.designation, queryFails)
          ELSE NoTeam :
          parsed \in { parse_team_name(team_name) } })

\* lines 443-447: the fuzzy fallback, or creation
FuzzyOrCreate(teams, team_name) ==
    The({ IF fuzzy # NoTeam THEN [strategy |-> "fuzzy", team |-> fuzzy]
          ELSE [strategy |-> "create", team |-> NoTeam] :
          fuzzy \in { find_matching_team(team_name, teams) } })

\* line 420 for a name that normalizes to the empty string: Team.get checks the
\* value before it queries and raises ValueError
GetRefused ==
    [strategy |-> "ValueError", team |-> NoTeam]

\* the lookups with the fuzzy fallback left out
ResolveExisting_NoFuzzy(teams, team_name, queryFails) ==
    The({ IF RequiredRefuses(normalize_name(team_name)) THEN GetRefused
          ELSE IF team # NoTeam THEN [strategy |-> "exact", team |-> team]
          ELSE The({ IF structured # NoTeam
                     THEN [strategy |-> "structured", team |-> structured]
                     ELSE [strategy |-> "create", team |-> NoTeam] :
                     structured \in { StructuredMatch(teams, team_name, queryFails) } }) :
          team \in { TeamGet(teams, normalize_name(team_name)) } })

\* the lookups with the fuzzy match tried before the structured one
ResolveExisting_FuzzyFirst(teams, team_name, queryFails) ==
    The({ IF RequiredRefuses(normalize_name(team_name)) THEN GetRefused
          ELSE IF team # NoTeam THEN [strategy |-> "exact", team |-> team]
          ELSE The({ IF fuzzy # NoTeam THEN [strategy |-> "fuzzy", team |-> fuzzy]
                     ELSE The({ IF structured # NoTeam
                                THEN [strategy |-> "structured", team |-> structured]
                                ELSE [strategy |-> "create", team |-> NoTeam] :
                                structured \in { StructuredMatch(teams, team_name,
                                                                 queryFails) } }) :
                     fuzzy \in { find_matching_team(team_name, teams) } }) :
          team \in { TeamGet(teams, normalize_name(team_name)) } })

\* the three lookups, in the order of the code: which strategy decided, and the
\* team; a name that normalizes to the empty string ends the call at the first
ResolveExisting(teams, team_name, queryFails) ==
    The({ IF RequiredRefuses(normalize_name(team_name)) THEN GetRefused
          ELSE IF team # NoTeam THEN [strategy |-> "exact", team |-> team]
          ELSE The({ IF structured # NoTeam
                     THEN [strategy |-> "structured", team |-> structured]
                     ELSE FuzzyOrCreate(teams, team_name) :
                     structured \in { StructuredMatch(teams, team_name, queryFails) } }) :
          team \in { TeamGet(teams, normalize_name(team_name)) } })

\* the parsed attributes a new Team row stores (lines 452-462)
ParsedAttributes(parsed, canonical_name) ==
    [canonical_name |-> canonical_name,
     birth_year     |-> IF parsed.parsed /\ HasYear(parsed.birth_year)
                        THEN parsed.birth_year ELSE NoYear,
     gender         |-> IF parsed.parsed THEN parsed.gender ELSE NoGender,
     designation    |-> IF parsed.parsed THEN parsed.designation ELSE << >>,
     base_club_name |-> IF parsed.parsed /\ parsed.club_name # << >>
                        THEN Stored(normalize_name(parsed.club_name)) ELSE << >>,
     club           |-> NoClub]

\* a new Team row that stores the raw name instead of the normalized one
NewTeamRow_RawName(team_name) ==
    The({ ParsedAttributes(parsed, team_name) : parsed \in { parse_team_name(team_name) } })

\* the new Team row, without its club
NewTeamRow(team_name) ==
    The({ ParsedAttributes(parsed, normalize_name(team_name)) :
          parsed \in { parse_team_name(team_name) } })

\* the name of the club to associate (line 465)
ClubNameOf(team_name) ==
    The({ IF parsed.club_name # << >> THEN parsed.club_name
          ELSE extract_club_name(team_name) :
          parsed \in { parse_team_name(team_name) } })

\* lines 450-466: the Team row without its club, then the club looked up or
\* created.  A new Club is committed inside get_or_create_club, and the Team
\* row with it (club_is_new).  refused: Team(canonical_name = '') or the Club
\* raised ValueError, and the store is the one the call started from.
InsertTeam(d, team_name) ==
    The({ IF RequiredRefuses(row.canonical_name)
          THEN [db |-> d, club |-> NoClub, club_is_new |-> FALSE, refused |-> TRUE]
          ELSE The({ IF club_name = << >>
                     THEN [db |-> [d EXCEPT !.teams = Append(@, row)], club |-> NoClub,
                           club_is_new |-> FALSE, refused |-> FALSE]
                     ELSE The({ IF withClub.refused
                                THEN [db |-> d, club |-> NoClub, club_is_new |-> FALSE,
                                      refused |-> TRUE]
                                ELSE [db |-> withClub.db, club |-> withClub.club,
                                      club_is_new |-> withClub.club > Len(d.clubs),
                                      refused |-> FALSE] :
                                withClub \in { get_or_create_club(
                                                 [d EXCEPT !.teams = Append(@, row)],
                                                 club_name) } }) :
                     club_name \in { ClubNameOf(team_name) } }) :
          row \in { NewTeamRow(team_name) } })

\* lines 467-470: team.club = club, commit
SetClub(d, team, club) ==
    [d EXCEPT !.teams[team].club = club]

\* the create branch: the Team row, its club, commit.  commits are the stores
\* the call publishes, in order: the one of line 395 when the Club is new,
\* with the Team row still without its club, then the one of line 470
CreateTeam(d, team_name) ==
    The({ IF inserted.refused THEN [db |-> d, refused |-> TRUE, commits |-> << >>]
          ELSE [db |-> SetClub(inserted.db, Len(d.teams) + 1, inserted.club),
                refused |-> FALSE,
                commits |-> (IF inserted.club_is_new THEN << inserted.db >> ELSE << >>)
                               \o << SetClub(inserted.db, Len(d.teams) + 1,
                                             inserted.club) >>] :
          inserted \in { InsertTeam(d, team_name) } })

\* what get_or_create_team hands back for a name it settled on, and for a
\* name the look-up refused (no Team, the store unchanged)
Resolved(d, found) ==
    [db |-> d, team |-> found.team, is_new |-> FALSE, strategy |-> found.strategy,
     commits |-> << >>]

\* what the create branch hands back: the new Team, or the ValueError of a
\* refused row with the store unchanged
Created(d, created) ==
    IF created.refused
    THEN [db |-> d, team |-> NoTeam, is_new |-> FALSE, strategy |-> "ValueError",
          commits |-> << >>]
    ELSE [db |-> created.db, team |-> Len(d.teams) + 1, is_new |-> TRUE,
          strategy |-> "create", commits |-> created.commits]

\* a resolver that copies the parsed designation onto the Team it found
get_or_create_team_Overwriting(d, team_name, queryFails) ==
    The({ IF found.strategy = "ValueError" THEN Resolved(d, found)
          ELSE IF found.strategy # "create"
          THEN LET written == [d EXCEPT !.teams[found.team].designation =
                                            parse_team_name(team_name).designation]
               IN  [db |-> written, team |-> found.team, is_new |-> FALSE,
                    strategy |-> found.strategy, commits |-> << written >>]
          ELSE Created(d, CreateTeam(d, team_name)) :
          found \in { ResolveExisting(d.teams, team_name, queryFails) } })

get_or_create_team(d, team_name, queryFails) ==
    The({ IF found.strategy # "create" THEN Resolved(d, found)
          ELSE Created(d, CreateTeam(d, team_name)) :
          found \in { ResolveExisting(d.teams, team_name, queryFails) } })

(***************************************************************************)
(* GVSA_Database.get_or_create_season / get_or_create_division             *)
(***************************************************************************)
NoRow == 0

\* Season.get(year = year, season_type = season_type)
SeasonGet(seasons, year, season_type) ==
    LET found == { i \in DOMAIN seasons :
                     seasons[i].year = year /\ seasons[i].season_type = season_type }
    IN  IF found = {} THEN NoRow ELSE Min(found)

\* the season row, renamed or created; both branches commit.  season is NoRow
\* when the call raises ValueError: a season_type that is none of the four, or
\* a season_name that is empty once stripped
get_or_create_season(d, year, season_name, season_type) ==
    LET season_type_str == IF season_type \in {"F", "Fall"} THEN "Fall" ELSE "Spring"
        season == SeasonGet(d.seasons, year, season_type_str)
    IN  IF season_type \notin {"F", "Fall", "S", "Spring"} \/ RequiredRefuses(season_name)
        THEN [db |-> d, season |-> NoRow]
        ELSE IF season # NoRow
        THEN [db |-> [d EXCEPT !.seasons[season].season_name = Stored(season_name)],
              season |-> season]
        ELSE [db |-> [d EXCEPT !.seasons =
                        Append(@, [year |-> year, season_type |-> season_type_str,
                                   season_name |-> Stored(season_name)])],
              season |-> Len(d.seasons) + 1]

\* lines 355-359: the divisions with this division_id in this season
DivisionsOf(d, division_id, season) ==
    { i \in DOMAIN d.divisions :
        /\ d.divisions[i].division_id = division_id
        /\ d.divisions[i].season = season }

\* lines 365-370: the new Division row and its commit
CreateDivision(d, division_id, division_name, season) ==
    IF RequiredRefuses(division_id) \/ RequiredRefuses(division_name)
    THEN [db |-> d, division |-> NoRow]
    ELSE [db |-> [d EXCEPT !.divisions =
                    Append(@, [division_id |-> Stored(division_id),
                               division_name |-> Stored(division_name),
                               season |-> season])],
          division |-> Len(d.divisions) + 1]

\* the first division with this division_id in this season, else a new one.
\* The select compares the stored ids with the id as given; the new row keeps
\* the stripped id and name.  division is NoRow when the new row is refused
get_or_create_division(d, division_id, division_name, season) ==
    LET divisions == DivisionsOf(d, division_id, season)
    IN  IF divisions # {}
        THEN [db |-> d, division |-> Min(divisions)]
        ELSE CreateDivision(d, division_id, division_name, season)

(***************************************************************************)
(* GVSA_Database.save_standings                                            *)
(***************************************************************************)
SlashAt(s, i) ==
    s[i] = "/"

\* r'\b(20\d{2})\b', matched at position i
SeasonYearAt(s, i) ==
    /\ i + 3 <= Len(s)
    /\ BoundaryBefore(s, i)
    /\ s[i] = "2"
    /\ s[i + 1] = "0"
    /\ DigitsAt(s, i + 2, 2)
    /\ BoundaryAfter(s, i + 3)

\* int(s) of a str: the whitespace int() skips stripped (the separators
\* U+001C to U+001F are not part of it), a sign, digits with single
\* underscores between them; found is FALSE where int raises ValueError
IntOf(s) ==
    LET t      == StripSet(s, SpaceChars \ { "", "", "", "" })
        signed == t # << >> /\ t[1] \in {"+", "-"}
        body   == IF signed THEN From(t, 2) ELSE t
    IN  IF /\ body # << >>
           /\ \A i \in DOMAIN body :
                 \/ IsDigit(body[i])
                 \/ /\ body[i] = "_"
                    /\ i > 1 /\ i < Len(body)
                    /\ IsDigit(body[i - 1]) /\ IsDigit(body[i + 1])
        THEN [found |-> TRUE,
              value |-> IF signed /\ t[1] = "-"
                        THEN 0 - NumberOf(SelectSeq(body, IsDigit))
                        ELSE NumberOf(SelectSeq(body, IsDigit))]
        ELSE [found |-> FALSE, value |-> 0]

\* year_season.split('/')[0] if '/' in year_season else year_season
YearStr(year_season) ==
    IF "/" \in Range(year_season)
    THEN SubSeq(year_season, 1, FirstMatch(year_season, SlashAt) - 1)
    ELSE year_season

\* the year of the division info: from the season name, else from year_season;
\* found is FALSE when year stays None and save_standings raises ValueError
SeasonYear(division_info) ==
    IF Matches(division_info.season_name, SeasonYearAt)
    THEN LET p == FirstMatch(division_info.season_name, SeasonYearAt)
         IN  [found |-> TRUE,
              value |-> NumberOf(SubSeq(division_info.season_name, p, p + 3))]
    ELSE IF division_info.year_season # << >>
    THEN IntOf(YearStr(division_info.year_season))
    ELSE [found |-> FALSE, value |-> 0]

\* the season type save_standings settles on
SeasonTypeStr(season_type, season_name) ==
    IF season_type = "F" THEN "Fall"
    ELSE IF season_type = "S" THEN "Spring"
    ELSE IF Contains(Lower(season_name), <<"s","p","r","i","n","g">>) THEN "Spring"
    ELSE IF Contains(Lower(season_name), <<"f","a","l","l">>) THEN "Fall"
    ELSE season_type

\* the TeamSeason rows of a team in a division, in stored order
TeamSeasonsOf(d, team, division) ==
    { i \in DOMAIN d.team_seasons :
        d.team_seasons[i].team = team /\ d.team_seasons[i].division = division }

NewTeamSeason(team, division, team_name, points) ==
    [team |-> team, division |-> division, team_name |-> Stored(team_name),
     points |-> points]

\* one pass of the team loop after the team is resolved: create or update
SaveTeamSeason(d, team, division, team_data) ==
    LET found == TeamSeasonsOf(d, team, division)
    IN  IF found = {}
        THEN [db |-> [d EXCEPT !.team_seasons =
                        Append(@, NewTeamSeason(team, division, team_data.team_name,
                                                team_data.points))],
              team_season |-> Len(d.team_seasons) + 1]
        ELSE [db |-> [d EXCEPT !.team_seasons[Min(found)].points = team_data.points],
              team_season |-> Min(found)]

\* team_seasons[team_name] = team_season
DictSet(dict, key, value) ==
    (key :> value) @@ dict

\* where a loop of save_standings stands: the store as the session sees it,
\* the stores committed so far, from the one the call started on to the one
\* last committed, the team_seasons dict, and whether a ValueError has ended
\* the call
Acc(d, commits, team_seasons, failed) ==
    [db |-> d, commits |-> commits, team_seasons |-> team_seasons,
     failed |-> failed]

\* the exception leaves the db_session: what was not committed is rolled back
RolledBack(acc) ==
    Acc(acc.commits[Len(acc.commits)], acc.commits, acc.team_seasons, TRUE)

\* commit(), lines 579 and 635
Commit(acc) ==
    IF acc.failed THEN acc
    ELSE Acc(acc.db, Append(acc.commits, acc.db), acc.team_seasons, FALSE)

\* the stores committed once get_or_create_team has returned: each commit of
\* a new Team publishes every row the session held with it
CommittedAfter(acc, r) ==
    acc.commits \o r.commits

\* one pass of the team loop
SaveTeam(acc, division, team_data) ==
    The({ IF r.team = NoTeam THEN RolledBack(acc)
          ELSE The({ Acc(saved.db, CommittedAfter(acc, r),
                         DictSet(acc.team_seasons, team_data.team_name,
                                 saved.team_season), FALSE) :
                     saved \in { SaveTeamSeason(r.db, r.team, division, team_data) } }) :
          r \in { get_or_create_team(acc.db, team_data.team_name, FALSE) } })

\* the team loop
RECURSIVE SaveTeams(_, _, _, _)
SaveTeams(acc, division, teams_data, i) ==
    IF i > Len(teams_data) \/ acc.failed THEN acc
    ELSE SaveTeams(SaveTeam(acc, division, teams_data[i]), division, teams_data, i + 1)

\* the TeamSeason of one side of a match: from the dict, else looked up or created
MatchSide(acc, division, team_name) ==
    IF acc.failed THEN [acc |-> acc, team_season |-> NoRow]
    ELSE IF team_name \in DOMAIN acc.team_seasons
    THEN [acc |-> acc, team_season |-> acc.team_seasons[team_name]]
    ELSE The({ IF r.team = NoTeam
               THEN [acc |-> RolledBack(acc), team_season |-> NoRow]
               ELSE IF TeamSeasonsOf(r.db, r.team, division) # {}
               THEN [acc |-> Acc(r.db, CommittedAfter(acc, r), acc.team_seasons, FALSE),
                     team_season |-> Min(TeamSeasonsOf(r.db, r.team, division))]
               ELSE [acc |-> Acc([r.db EXCEPT !.team_seasons =
                                    Append(@, NewTeamSeason(r.team, division,
                                                            team_name, 0))],
                                 CommittedAfter(acc, r),
                                 DictSet(acc.team_seasons, team_name,
                                         Len(r.db.team_seasons) + 1), FALSE),
                     team_season |-> Len(r.db.team_seasons) + 1] :
               r \in { get_or_create_team(acc.db, team_name, FALSE) } })

NewMatch(division, match_data, home, away) ==
    [division |-> division, date |-> Stored(match_data.date),
     home_team |-> home, away_team |-> away]

\* one pass of the match loop: a Match without a date is refused (ValueError)
SaveMatch(acc, division, match_data) ==
    The({ The({ IF away.acc.failed THEN away.acc
                ELSE IF RequiredRefuses(match_data.date) THEN RolledBack(away.acc)
                ELSE Acc([away.acc.db EXCEPT !.matches =
                            Append(@, NewMatch(division, match_data, home.team_season,
                                               away.team_season))],
                         away.acc.commits, away.acc.team_seasons, FALSE) :
                away \in { MatchSide(home.acc, division, match_data.away_team) } }) :
          home \in { MatchSide(acc, division, match_data.home_team) } })

\* the match loop
RECURSIVE SaveMatches(_, _, _, _)
SaveMatches(acc, division, matches_data, i) ==
    IF i > Len(matches_data) \/ acc.failed THEN acc
    ELSE SaveMatches(SaveMatch(acc, division, matches_data[i]),
                     division, matches_data, i + 1)

\* division with the stores committed on the way to it: the one the call
\* started on, the one with the season, the one with the division
WithCommits(d, season, division) ==
    [db |-> division.db, division |-> division.division,
     commits |-> << d, season.db, division.db >>]

\* season and division of a standings file; division is NoRow when one of the
\* steps raises ValueError, and db is then the store as last committed
SaveDivision(d, division_info) ==
    The({ IF ~year.found THEN [db |-> d, division |-> NoRow, commits |-> << d >>]
          ELSE The({ IF season.season = NoRow
                     THEN [db |-> d, division |-> NoRow, commits |-> << d >>]
                     ELSE WithCommits(d, season,
                              get_or_create_division(season.db, division_info.division_id,
                                                     division_info.division_name,
                                                     season.season)) :
                     season \in { get_or_create_season(
                                     d, year.value, division_info.season_name,
                                     SeasonTypeStr(division_info.season_type,
                                                   division_info.season_name)) } }) :
          year \in { SeasonYear(division_info) } })

\* save_standings from the first line to the last commit: the store it leaves
\* and whether it raised
SaveStandingsSteps(d, standings_data) ==
    The({ IF dv.division = NoRow
          THEN Acc(dv.db, dv.commits, << >>, TRUE)
          ELSE Commit(SaveMatches(
                   Commit(SaveTeams(Acc(dv.db, dv.commits, << >>, FALSE),
                                    dv.division, standings_data.teams, 1)),
                   dv.division, standings_data.matches, 1)) :
          dv \in { SaveDivision(d, standings_data.division) } })

\* save_standings run on its own: the store it leaves
save_standings(d, standings_data) ==
    SaveStandingsSteps(d, standings_data).db

(***************************************************************************)
(* old/import_csv_matches.import_csv_matches                               *)
(***************************************************************************)
\* str(year) of the int the four digits of the path gave: no leading zeros
RECURSIVE YearDigits(_)
YearDigits(year) ==
    IF year < 10 THEN << DigitSeq[year + 1] >>
    ELSE YearDigits(year \div 10) \o << DigitSeq[(year % 10) + 1] >>

\* f"{season_type} {year}"
CsvSeasonName(season_type, year) ==
    (IF season_type = "Fall" THEN <<"F","a","l","l">> ELSE <<"S","p","r","i","n","g">>)
        \o << " " >> \o YearDigits(year)

\* the TeamSeason of one side of a CSV match, looked up by team, division and name
CsvSide(acc, division, team_name) ==
    IF acc.failed THEN [acc |-> acc, team_season |-> NoRow]
    ELSE IF team_name \in DOMAIN acc.team_seasons
    THEN [acc |-> acc, team_season |-> acc.team_seasons[team_name]]
    ELSE The({ LET found == { i \in TeamSeasonsOf(r.db, r.team, division) :
                                r.db.team_seasons[i].team_name = team_name }
               IN  IF r.team = NoTeam
                   THEN [acc |-> RolledBack(acc), team_season |-> NoRow]
                   ELSE IF found # {}
                   THEN [acc |-> Acc(r.db, CommittedAfter(acc, r),
                                     DictSet(acc.team_seasons, team_name, Min(found)),
                                     FALSE),
                         team_season |-> Min(found)]
                   ELSE [acc |-> Acc([r.db EXCEPT !.team_seasons =
                                        Append(@, NewTeamSeason(r.team, division,
                                                                team_name, 0))],
                                     CommittedAfter(acc, r),
                                     DictSet(acc.team_seasons, team_name,
                                             Len(r.db.team_seasons) + 1), FALSE),
                         team_season |-> Len(r.db.team_seasons) + 1] :
               r \in { get_or_create_team(acc.db, team_name, FALSE) } })

\* one pass of the match loop of the import: a match already stored is
\* skipped, and so is one the store refuses (the ValueError is caught)
CsvMatch(acc, division, match_data) ==
    The({ The({ LET row == NewMatch(division, match_data, home.team_season,
                                    away.team_season)
                    existing_matches == { k \in DOMAIN away.acc.db.matches :
                                            away.acc.db.matches[k] =
                                                [row EXCEPT !.date = match_data.date] }
                IN  IF away.acc.failed THEN away.acc
                    ELSE IF existing_matches # {} \/ RequiredRefuses(match_data.date)
                    THEN away.acc
                    ELSE Acc([away.acc.db EXCEPT !.matches = Append(@, row)],
                             away.acc.commits, away.acc.team_seasons, FALSE) :
                away \in { CsvSide(home.acc, division, match_data.away_team) } }) :
          home \in { CsvSide(acc, division, match_data.home_team) } })

\* the match loop of the import
RECURSIVE CsvMatches(_, _, _, _)
CsvMatches(acc, division, matches_data, i) ==
    IF i > Len(matches_data) \/ acc.failed THEN acc
    ELSE CsvMatches(CsvMatch(acc, division, matches_data[i]),
                    division, matches_data, i + 1)

\* season and division of a CSV file, the division_name standing for the id
CsvDivision(d, path_info) ==
    The({ IF season.season = NoRow
          THEN [db |-> d, division |-> NoRow, commits |-> << d >>]
          ELSE WithCommits(d, season,
                   get_or_create_division(season.db, path_info.division_name,
                                          path_info.division_name, season.season)) :
          season \in { get_or_create_season(d, path_info.year,
                                            CsvSeasonName(path_info.season_type,
                                                          path_info.year),
                                            path_info.season_type) } })

\* import_csv_matches from the first line to the commit of line 207;
\* path_info is what the path of the file gives
ImportCsvSteps(d, path_info, matches_data) ==
    The({ IF division.division = NoRow
          THEN Acc(division.db, division.commits, << >>, TRUE)
          ELSE Commit(CsvMatches(Acc(division.db, division.commits, << >>, FALSE),
                                 division.division, matches_data, 1)) :
          division \in { CsvDivision(d, path_info) } })

\* import_csv_matches run on its own: the store it leaves
import_csv_matches(d, path_info, matches_data) ==
    ImportCsvSteps(d, path_info, matches_data).db

(***************************************************************************)
(* team_matching_candidates.get_matching_candidates                        *)
(***************************************************************************)
\* recommended = None
NoRecommendation == -1

Candidate(team, match_type, confidence) ==
    [team |-> team, match_type |-> match_type, confidence |-> confidence]

\* [c['team'] for c in candidates if 'team' in c]
CandidateTeams(candidates) ==
    { candidates[i].team : i \in DOMAIN candidates }

\* strategy 1: the Team of the normalized name
ExactCandidates(teams, team_name) ==
    The({ IF exact_match = NoTeam THEN << >>
          ELSE << Candidate(exact_match, "exact_name", 100) >> :
          exact_match \in { TeamGet(teams, normalize_name(team_name)) } })

\* confidence of a structured match: 100 when both designations are set and agree
BirthYearClubConfidence(parsed, team) ==
    IF /\ parsed.designation # << >>
       /\ team.designation # << >>
       /\ Upper(team.designation) = Upper(parsed.designation)
    THEN 100
    ELSE 95

\* strategy 2: the Team find_team_by_birth_year returns, unless already listed
BirthYearClubCandidates(teams, parsed, candidates) ==
    IF /\ parsed.parsed /\ HasYear(parsed.birth_year) /\ parsed.gender # NoGender
       /\ parsed.club_name # << >>
    THEN The({ IF matched # NoTeam /\ matched \notin CandidateTeams(candidates)
               THEN Append(candidates,
                           Candidate(matched, "birth_year_club",
                                     BirthYearClubConfidence(parsed, teams[matched])))
               ELSE candidates :
               matched \in { find_team_by_birth_year(teams, parsed.birth_year,
                                                     parsed.gender, parsed.club_name,
                                                     parsed.designation, FALSE) } })
    ELSE candidates

\* confidence of a base-identifier match: 90 when neither side has a designation
BaseIdentifierConfidence(parsed, team) ==
    IF parsed.designation = << >> /\ team.designation = << >> THEN 90 ELSE 85

\* the loop over base_teams, in the order of the rows
RECURSIVE AppendBaseTeams(_, _, _, _)
AppendBaseTeams(teams, parsed, base_teams, candidates) ==
    IF base_teams = {} THEN candidates
    ELSE AppendBaseTeams(teams, parsed, base_teams \ { Min(base_teams) },
            IF Min(base_teams) \in CandidateTeams(candidates) THEN candidates
            ELSE Append(candidates,
                        Candidate(Min(base_teams), "base_identifier",
                                  BaseIdentifierConfidence(parsed,
                                                           teams[Min(base_teams)]))))

\* strategy 3 is entered: extract_base_identifier is never empty with a birth year
BaseIdentifierTried(parsed) ==
    parsed.parsed /\ HasYear(parsed.birth_year) /\ parsed.gender # NoGender

\* strategy 3: every Team of the same birth year, gender and club
BaseIdentifierCandidates(teams, parsed, candidates) ==
    IF BaseIdentifierTried(parsed)
    THEN AppendBaseTeams(teams, parsed,
                         Candidates(teams, parsed.birth_year, parsed.gender,
                                    normalize_name(parsed.club_name)),
                         candidates)
    ELSE candidates

\* how the call ends: normalize_name(None) raises inside the query of strategy 3
\* when the parse has no club; the loop of strategy 4 unpacks three values from
\* the pairs process.extract returns for a list of choices
Outcome(teams, parsed) ==
    IF BaseIdentifierTried(parsed) /\ parsed.club_name = << >> THEN "AttributeError"
    ELSE IF teams # << >> THEN "ValueError"
    ELSE "ok"

\* the first position holding the highest confidence
FirstBest(candidates) ==
    CHOOSE i \in DOMAIN candidates :
        /\ \A j \in DOMAIN candidates : candidates[j].confidence <= candidates[i].confidence
        /\ \A j \in 1..(i - 1) : candidates[j].confidence < candidates[i].confidence

\* candidates.sort(key=confidence, reverse=True): stable
RECURSIVE SortByConfidence(_)
SortByConfidence(candidates) ==
    IF candidates = << >> THEN << >>
    ELSE << candidates[FirstBest(candidates)] >>
         \o SortByConfidence(SubSeq(candidates, 1, FirstBest(candidates) - 1)
                             \o SubSeq(candidates, FirstBest(candidates) + 1,
                                       Len(candidates)))

\* the index (from 0) of the recommended candidate of a sorted list
Recommended(candidates) ==
    LET high_confidence == { i \in DOMAIN candidates : candidates[i].confidence >= 90 }
        preferred == { i \in high_confidence :
                         candidates[i].match_type \in { "exact_name", "birth_year_club" } }
    IN  IF candidates = << >> THEN NoRecommendation
        ELSE IF high_confidence = {} THEN 0
        ELSE IF preferred # {} THEN Min(preferred) - 1
        ELSE Min(high_confidence) - 1

\* what the call hands back; nothing when it raises
CandidatesResult(outcome, candidates) ==
    IF outcome = "ok"
    THEN [outcome |-> outcome, candidates |-> candidates,
          recommended |-> Recommended(candidates)]
    ELSE [outcome |-> outcome, candidates |-> << >>, recommended |-> NoRecommendation]

\* the four strategies, the sort and the recommendation, on the Team rows; for
\* a name that normalizes to the empty string Team.get raises (line 47)
CollectCandidates(teams, team_name) ==
    The({ IF RequiredRefuses(normalize_name(team_name))
          THEN CandidatesResult("ValueError", << >>)
          ELSE
          CandidatesResult(Outcome(teams, parsed),
              SortByConfidence(
                  BaseIdentifierCandidates(teams, parsed,
                      BirthYearClubCandidates(teams, parsed,
                          ExactCandidates(teams, team_name))))) :
          parsed \in { parse_team_name(team_name) } })

\* a generator that creates the Team it does not find
get_matching_candidates_Creating(d, team_name) ==
    [db |-> get_or_create_team(d, team_name, FALSE).db]
        @@ CollectCandidates(d.teams, team_name)

\* get_matching_candidates: reads only, the store is handed back as it was
get_matching_candidates(d, team_name) ==
    [db |-> d] @@ CollectCandidates(d.teams, team_name)

(***************************************************************************)
(* gvsa/team_progression: extract_age_group and track_team_progression     *)
(***************************************************************************)
\* sorted(): the elements of s in the order Before, equal ones in the order
\* they had
StableSort(s, Before(_, _)) ==
    LET rank(i) == Cardinality({ j \in DOMAIN s :
                                   \/ Before(s[j], s[i])
                                   \/ ~Before(s[i], s[j]) /\ j < i }) + 1
    IN  [k \in 1..Len(s) |-> s[CHOOSE i \in DOMAIN s : rank(i) = k]]

\* extract_age_group returning None
NoAgeGroup == << >>

\* r'U(\d{1,2})/(\d{1,2})' at position i: the length of the first group, 0
\* when the pattern does not match there
AgeRangeLenAt(s, i) ==
    IF s[i] # "U" THEN 0
    ELSE IF DigitsAt(s, i + 1, 2) /\ i + 3 <= Len(s) /\ s[i + 3] = "/"
            /\ DigitsAt(s, i + 4, 1)
    THEN 2
    ELSE IF DigitsAt(s, i + 1, 1) /\ i + 2 <= Len(s) /\ s[i + 2] = "/"
            /\ DigitsAt(s, i + 3, 1)
    THEN 1
    ELSE 0

AgeRangeAt(s, i) ==
    AgeRangeLenAt(s, i) > 0

\* r'U(\d{1,2})\b' at position i: the length of the group, 0 when the pattern
\* does not match there
AgeSingleLenAt(s, i) ==
    IF s[i] # "U" THEN 0
    ELSE IF DigitsAt(s, i + 1, 2) /\ BoundaryAfter(s, i + 2) THEN 2
    ELSE IF DigitsAt(s, i + 1, 1) /\ BoundaryAfter(s, i + 1) THEN 1
    ELSE 0

AgeSingleAt(s, i) ==
    AgeSingleLenAt(s, i) > 0

\* (min_age, max_age) of a division name, the range pattern tried first
extract_age_group(division_name) ==
    IF Matches(division_name, AgeRangeAt)
    THEN LET p == FirstMatch(division_name, AgeRangeAt)
             q == p + AgeRangeLenAt(division_name, p) + 2
         IN  << NumberOf(SubSeq(division_name, p + 1, q - 2)),
                NumberOf(SubSeq(division_name, q,
                                IF DigitsAt(division_name, q, 2) THEN q + 1 ELSE q)) >>
    ELSE IF Matches(division_name, AgeSingleAt)
    THEN LET p == FirstMatch(division_name, AgeSingleAt)
             age == NumberOf(SubSeq(division_name, p + 1,
                                    p + AgeSingleLenAt(division_name, p)))
         IN  << age, age >>
    ELSE NoAgeGroup

\* the age group of the division of a TeamSeason row
RowAgeGroup(d, ts) ==
    extract_age_group(d.divisions[d.team_seasons[ts].division].division_name)

\* the row is kept: it has an age group, and one that overlaps [min_age, max_age]
RowCounts(d, ts, min_age, max_age) ==
    The({ age_group # NoAgeGroup /\ ~(age_group[2] < min_age \/ age_group[1] > max_age) :
          age_group \in { RowAgeGroup(d, ts) } })

\* one entry of progression_map[age_group]
Appearance(d, ts) ==
    [season      |-> d.seasons[d.divisions[d.team_seasons[ts].division].season].season_name,
     year        |-> d.seasons[d.divisions[d.team_seasons[ts].division].season].year,
     season_type |-> d.seasons[d.divisions[d.team_seasons[ts].division].season].season_type,
     division_id |-> d.team_seasons[ts].division,
     team_name   |-> d.team_seasons[ts].team_name,
     points      |-> d.team_seasons[ts].points]

\* the str order of the two season types a Season row holds: 'Fall' < 'Spring'
SeasonTypeBefore(a, b) ==
    a = "Fall" /\ b = "Spring"

\* key=lambda x: (x['year'], x['season_type'])
AppearanceBefore(a, b) ==
    \/ a.year < b.year
    \/ a.year = b.year /\ SeasonTypeBefore(a.season_type, b.season_type)

\* tuples compared the other way round
AgeGroupBefore_Descending(a, b) ==
    a[1] > b[1] \/ (a[1] = b[1] /\ a[2] > b[2])

\* the order of two (min_age, max_age) tuples
AgeGroupBefore(a, b) ==
    a[1] < b[1] \/ (a[1] = b[1] /\ a[2] < b[2])

\* sorted(progression_map.keys())
SortedAges(age_groups) ==
    [k \in 1..Cardinality(age_groups) |->
        CHOOSE a \in age_groups :
            Cardinality({ b \in age_groups : AgeGroupBefore(b, a) }) = k - 1]

\* a report that takes teams of a single age group too
MinAgeGroups_One == 2 - 1

\* a team with fewer age groups than this is left out
MinAgeGroups == 2

\* the rows of a team in stored order, its progression_map and its record
TeamProgression(d, team, min_age, max_age) ==
    LET rows == [i \in DOMAIN d.team_seasons |-> i]
        team_seasons == SelectSeq(rows, LAMBDA ts : d.team_seasons[ts].team = team)
        counted == SelectSeq(team_seasons, LAMBDA ts : RowCounts(d, ts, min_age, max_age))
        progression_map == { RowAgeGroup(d, counted[i]) : i \in DOMAIN counted }
        sorted_ages == SortedAges(progression_map)
        appearances(age_group) ==
            LET of_group == SelectSeq(counted, LAMBDA ts : RowAgeGroup(d, ts) = age_group)
            IN  StableSort([i \in DOMAIN of_group |-> Appearance(d, of_group[i])],
                           AppearanceBefore)
    IN  [team_id |-> team,
         reported |-> Cardinality(progression_map) >= MinAgeGroups,
         progression |-> [k \in DOMAIN sorted_ages |->
                            [age_min |-> sorted_ages[k][1], age_max |-> sorted_ages[k][2],
                             appearances |-> appearances(sorted_ages[k])]],
         age_groups_played |-> Cardinality(progression_map),
         total_seasons |-> Len(team_seasons)]

\* key=lambda x: (x['age_groups_played'], x['total_seasons']), reverse=True
ProgressionBefore(a, b) ==
    \/ a.age_groups_played > b.age_groups_played
    \/ a.age_groups_played = b.age_groups_played /\ a.total_seasons > b.total_seasons

\* lines 111-119: the Team given, else the Teams of the club given, else
\* every Team of the store
TeamsQuery(d, team, club_name) ==
    IF team # NoTeam THEN << team >>
    ELSE IF club_name # << >>
    THEN SelectSeq([t \in DOMAIN d.teams |-> t],
                   LAMBDA t : /\ d.teams[t].club # NoClub
                              /\ d.clubs[d.teams[t].club].canonical_name
                                    = normalize_name(club_name))
    ELSE [t \in DOMAIN d.teams |-> t]

track_team_progression(d, team, club_name, min_age, max_age) ==
    LET teams_query == TeamsQuery(d, team, club_name)
    IN  StableSort(SelectSeq([i \in DOMAIN teams_query |->
                                TeamProgression(d, teams_query[i], min_age, max_age)],
                             LAMBDA r : r.reported),
                   ProgressionBefore)

(***************************************************************************)
(* age_progression.calculate_age_group                                     *)
(***************************************************************************)
\* a Spring season that takes the cutoff of its own year
CutoffYear_SameYear(season_year, season_type) ==
    season_year

\* the year whose Aug 1 decides the age: season_type.upper() picks the branch
CutoffYear(season_year, season_type) ==
    IF Upper(season_type) \in { << "F" >>, << "F", "A", "L", "L" >> }
    THEN season_year
    ELSE IF Upper(season_type) \in { << "S" >>, << "S", "P", "R", "I", "N", "G" >> }
    THEN season_year - 1
    ELSE season_year

\* an upper end one age group further
MaxUAge_Wider == 19 + 1

\* U5 to U19
MinUAge == 5

MaxUAge == 19

\* (u_age, u_age), or None outside U5..U19
calculate_age_group(birth_year, season_year, season_type) ==
    The({ IF u_age < MinUAge \/ u_age > MaxUAge THEN NoAgeGroup ELSE << u_age, u_age >> :
          u_age \in { CutoffYear(season_year, season_type) - birth_year + 1 } })

(***************************************************************************)
(* Inputs: the standings files of the cache and the CSV exports            *)
(***************************************************************************)
\* "Fall 2025"
S_Fall2025 ==
    << "F", "a", "l", "l", " ", "2", "0", "2", "5" >>

\* "Spring 2026"
S_Spring2026 ==
    << "S", "p", "r", "i", "n", "g", " ", "2", "0", "2", "6" >>

\* "U12 Boys 1st Division"
D_U12Boys1st ==
    << "U", "1", "2", " ", "B", "o", "y", "s", " ", "1", "s", "t", " ", "D", "i", "v", "i", "s", "i", "o", "n" >>

\* "U12 Boys First Division"
D_U12BoysFirst ==
    << "U", "1", "2", " ", "B", "o", "y", "s", " ", "F", "i", "r", "s", "t", " ", "D", "i", "v", "i", "s", "i", "o", "n" >>

\* "U12 Boys 2nd Division"
D_U12Boys2nd ==
    << "U", "1", "2", " ", "B", "o", "y", "s", " ", "2", "n", "d", " ", "D", "i", "v", "i", "s", "i", "o", "n" >>

\* "U12 Boys 3rd Division"
D_U12Boys3rd ==
    << "U", "1", "2", " ", "B", "o", "y", "s", " ", "3", "r", "d", " ", "D", "i", "v", "i", "s", "i", "o", "n" >>

\* "U13 Boys 2nd Division"
D_U13Boys2nd ==
    << "U", "1", "3", " ", "B", "o", "y", "s", " ", "2", "n", "d", " ", "D", "i", "v", "i", "s", "i", "o", "n" >>

DivisionInfo(division_id, division_name, season_name, season_type) ==
    [division_id |-> division_id, division_name |-> division_name,
     season_name |-> season_name, season_type |-> season_type,
     year_season |-> << >>]

TeamData(team_name, points) ==
    [team_name |-> team_name, points |-> points]

MatchData(home_team, away_team, date) ==
    [home_team |-> home_team, away_team |-> away_team, date |-> date]

\* what parse_standings and _parse_cached_file hand to save_standings; the
\* second name of the last file scores 85 against the first and 98 against
\* the third, which scores 83 against the first
StandingsFiles ==
    << [division |-> DivisionInfo(<< "1", "0", "1" >>, D_U12Boys1st, S_Fall2025, "Fall"),
        teams    |-> << TeamData(N_Nusc13B, 3), TeamData(N_RapidsFc, 1) >>,
        matches  |-> << MatchData(N_Nusc13B, N_RapidsFc, << "0", "9", "/", "0", "6" >>) >>],
       [division |-> DivisionInfo(<< "1", "0", "1" >>, D_U12BoysFirst, S_Fall2025, "F"),
        teams    |-> << TeamData(N_Nusc13BGreen, 6), TeamData(N_Rapids, 4) >>,
        matches  |-> << MatchData(N_Nusc13BGreen, N_Rapids15BBlack, << "0", "9", "/", "1", "3" >>) >>],
       [division |-> DivisionInfo(<< >>, D_U13Boys2nd, S_Spring2026, "Spring"),
        teams    |-> << TeamData(N_Nusc13BWhite, 2), TeamData(N_Nusc13GGreen, 5) >>,
        matches  |-> << >>],
       [division |-> DivisionInfo(<< "1", "0", "4" >>, D_U12Boys2nd, S_Fall2025, "Fall"),
        teams    |-> << TeamData(N_LakeshorePremier, 9),
                        TeamData(N_LakeshorePremierWhite, 5),
                        TeamData(N_LakeshorePremierWhites, 2) >>,
        matches  |-> << >>] >>

\* what the path and the rows of a CSV export give import_csv_matches
CsvFiles ==
    << [path_info |-> [year |-> 2025, season_type |-> "Fall",
                       division_name |-> D_U12Boys1st],
        matches   |-> << MatchData(N_Nusc13BWhite, N_RapidsFc, << "0", "9", "/", "0", "6" >>),
                         MatchData(N_Nusc13BGreen, N_RapidsFc, << "0", "9", "/", "1", "3" >>) >>],
       [path_info |-> [year |-> 2026, season_type |-> "Spring",
                       division_name |-> D_U13Boys2nd],
        matches   |-> << MatchData(N_Rapids, N_Nusc13GGreen, << "0", "4", "/", "1", "1" >>),
                         MatchData(N_Rapids, N_Nusc13GGreen, << "0", "4", "/", "1", "1" >>) >>] >>

\* standings of one team over several seasons and age groups, of a second team
\* with a single age group, and of a third with two age groups above U14 that
\* start at the same age
TrackFiles ==
    LET U11 == << "U", "1", "1", " ", "B", "o", "y", "s" >>
        U12 == << "U", "1", "2", " ", "B", "o", "y", "s" >>
        U15 == << "U", "1", "5", " ", "B", "o", "y", "s" >>
        U1516 == << "U", "1", "5", "/", "1", "6", " ", "B", "o", "y", "s" >>
        Premier == << "B", "o", "y", "s", " ", "P", "r", "e", "m", "i", "e", "r" >>
        Spring2025 == << "S", "p", "r", "i", "n", "g", " ", "2", "0", "2", "5" >>
    IN  << [division |-> DivisionInfo(<< "3", "0", "1" >>, U12, S_Spring2026, "Spring"),
            teams    |-> << TeamData(N_Rapids15BBlack, 7), TeamData(N_RapidsFc, 2) >>,
            matches  |-> << >>],
           [division |-> DivisionInfo(<< "3", "0", "2" >>, U11, S_Fall2025, "Fall"),
            teams    |-> << TeamData(N_Rapids15BBlack, 5) >>,
            matches  |-> << >>],
           [division |-> DivisionInfo(<< "3", "0", "3" >>, U11, Spring2025, "Spring"),
            teams    |-> << TeamData(N_Rapids15BBlack, 4) >>,
            matches  |-> << >>],
           [division |-> DivisionInfo(<< "3", "0", "4" >>, Premier, S_Fall2025, "Fall"),
            teams    |-> << TeamData(N_Rapids15BBlack, 1) >>,
            matches  |-> << >>],
           [division |-> DivisionInfo(<< "3", "0", "5" >>, U1516, S_Fall2025, "Fall"),
            teams    |-> << TeamData(N_Rapids15BBlack, 3), TeamData(N_Nusc13B, 9) >>,
            matches  |-> << >>],
           [division |-> DivisionInfo(<< "3", "0", "6" >>, U15, S_Spring2026, "Spring"),
            teams    |-> << TeamData(N_Nusc13B, 6) >>,
            matches  |-> << >>] >>

\* a range of interest that reaches up to U16
DefaultAges_Wide ==
    [min_age |-> 10, max_age |-> 16]

\* min_age = 10, max_age = 14: the defaults of track_team_progression
DefaultAges ==
    [min_age |-> 10, max_age |-> 14]

\* min_age and max_age left to their defaults
NoRange ==
    [min_age |-> 0, max_age |-> 0]

\* the ranges a report is asked for: the default one, --min-age 11
\* --max-age 16, and --min-age 15 --max-age 16
TrackRanges ==
    { NoRange, [min_age |-> 11, max_age |-> 16], [min_age |-> 15, max_age |-> 16] }

\* the clubs a report is asked for: none, "Rapids FC" and "NUSC"
TrackClubs ==
    { << >>, << "R", "a", "p", "i", "d", "s", " ", "F", "C" >>, << "N", "U", "S", "C" >> }

\* the cached files the pool of parse_cached_html works through: pages of one
\* season, the sides of their matches among the teams of their standings
PoolFiles ==
    << [division |-> DivisionInfo(<< "2", "0", "1" >>, D_U12Boys1st, S_Fall2025, "Fall"),
        teams    |-> << TeamData(N_Nusc13BGreen, 3) >>,
        matches  |-> << >>],
       [division |-> DivisionInfo(<< "2", "0", "2" >>, D_U12Boys2nd, S_Fall2025, "Fall"),
        teams    |-> << TeamData(N_Nusc13BWhite, 1) >>,
        matches  |-> << >>],
       [division |-> DivisionInfo(<< "2", "0", "3" >>, D_U12Boys3rd, S_Fall2025, "Fall"),
        teams    |-> << TeamData(N_Nusc13BGreen, 0), TeamData(N_NuscFc13BWhite, 4) >>,
        matches  |-> << MatchData(N_Nusc13BGreen, N_NuscFc13BWhite,
                                  << "0", "9", "/", "2", "0" >>) >>] >>

(***************************************************************************)
(* State                                                                   *)
(***************************************************************************)
VARIABLES
    db,       \* the committed store
    last,     \* the latest call: its arguments, its result, the teams before it
    pool,     \* the pool's workers: where each is in its save_standings
    results,  \* per cached file: queued, running, saved or failed
    lock,     \* the worker holding the store's write lock
    tx        \* the store as the lock holder sees it: db and its uncommitted writes

vars == << db, last, pool, results, lock, tx >>

poolVars == << pool, results, lock, tx >>

NoCall ==
    [op |-> "none", name |-> << >>, team |-> NoTeam]

MaxTeams == 4

MaxMatches == 4

Workers == {"w1", "w2"}

NoWorker == "none"

IdleWorker ==
    [pc |-> "idle", file |-> 0, season |-> NoRow, division |-> NoRow, i |-> 0,
     team |-> NoTeam, club |-> NoClub, team_seasons |-> << >>]

Init ==
    /\ db = EmptyDb
    /\ last = NoCall
    /\ pool = [w \in Workers |-> IdleWorker]
    /\ results = [f \in DOMAIN PoolFiles |-> "queued"]
    /\ lock = NoWorker
    /\ tx = EmptyDb

(***************************************************************************)
(* A call of the sequential interface takes one step for each commit() it  *)
(* makes that changes the store: db is the committed store, the one a      *)
(* reader in another session sees.  The first step runs the call up to its *)
(* first commit, each further step up to the next, and the last one hands  *)
(* back what the call returns.  No other call of the interface starts      *)
(* while one is under way.                                                 *)
(***************************************************************************)
\* of the stores a call commits, those that differ from the one before them
RECURSIVE Published(_, _)
Published(d, commits) ==
    IF commits = << >> THEN << >>
    ELSE IF commits[1] = d THEN Published(d, Tail(commits))
    ELSE << commits[1] >> \o Published(commits[1], Tail(commits))

\* a call is between two of its commits
Running ==
    "rest" \in DOMAIN last /\ last.rest # << >>

\* the call up to its first commit; returned is what it hands back in the end
Call(commits, returned) ==
    LET steps == Published(db, commits)
    IN  /\ ~Running
        /\ db' = IF steps = << >> THEN db ELSE steps[1]
        /\ last' = IF Len(steps) <= 1 THEN returned
                   ELSE [op |-> "running", name |-> << >>, team |-> NoTeam,
                         rest |-> Tail(steps), done |-> returned]
        /\ UNCHANGED poolVars

\* the call under way up to its next commit, and its return after the last;
\* a report that is being read in another session goes on afterwards
NextCommit ==
    /\ Running
    /\ db' = last.rest[1]
    /\ last' = IF last.op = "tracking"
               THEN [last EXCEPT !.rest = Tail(@),
                                 !.done = IF Len(last.rest) = 1 THEN NoCall ELSE @]
               ELSE IF Len(last.rest) = 1 THEN last.done
               ELSE [op |-> "running", name |-> << >>, team |-> NoTeam,
                     rest |-> Tail(last.rest), done |-> last.done]
    /\ UNCHANGED poolVars

(***************************************************************************)
(* The sequential interface: db.get_or_create_team called on its own       *)
(***************************************************************************)
ResolveCall(team_name, r, queryFailed) ==
    [op |-> "resolve", name |-> team_name, team |-> r.team, is_new |-> r.is_new,
     strategy |-> r.strategy, before |-> db.teams, query_failed |-> queryFailed,
     prev_name |-> last.name, prev_team |-> last.team]

Resolve(team_name) ==
    \E r \in { get_or_create_team(db, team_name, FALSE) } :
        /\ Len(r.db.teams) <= MaxTeams
        /\ Call(r.commits, ResolveCall(team_name, r, FALSE))

Next ==
    \/ \E n \in ResolveNames : Resolve(n)
    \/ NextCommit

Spec ==
    Init /\ [][Next]_vars

(***************************************************************************)
(* The sequential interface on names that only the fuzzy match can link    *)
(***************************************************************************)
FuzzyNames ==
    { N_LakeshorePremier, N_LakeshorePremierWhite, N_LakeshorePremierWhites,
      N_LakeshoreUnited, N_LakeshoreUnitedGreen }

\* the most calls of one run
MaxCalls == 5

\* the calls made so far
Calls ==
    IF last.op = "resolve" THEN last.calls ELSE 0

\* the Team each name resolved to the first time it was resolved
First ==
    IF last.op = "resolve" THEN last.first ELSE << >>

\* get_or_create_team, the caller keeping count and noting what each name gave
ResolveTracked(team_name) ==
    /\ Calls < MaxCalls
    /\ \E r \in { get_or_create_team(db, team_name, FALSE) } :
          /\ Len(r.db.teams) <= MaxTeams
          /\ Call(r.commits,
                  [calls |-> Calls + 1,
                   first |-> IF team_name \in DOMAIN First THEN First
                             ELSE DictSet(First, team_name, r.team)]
                      @@ ResolveCall(team_name, r, FALSE))

FuzzyNext ==
    \/ \E n \in FuzzyNames : ResolveTracked(n)
    \/ NextCommit

FuzzySpec ==
    Init /\ [][FuzzyNext]_vars

(***************************************************************************)
(* The sequential interface when the store can fail: the select of the     *)
(* structured match raises in some calls                                   *)
(***************************************************************************)
FaultNames ==
    { N_Nusc13B, N_Nusc13BGreen, N_Nusc13GGreen, N_RapidsFc }

\* whether get_or_create_team reaches the select of find_team_by_birth_year
QueryAttempted(teams, team_name) ==
    LET parsed == parse_team_name(team_name)
    IN  /\ TeamGet(teams, normalize_name(team_name)) = NoTeam
        /\ parsed.parsed /\ HasYear(parsed.birth_year)
        /\ parsed.gender # NoGender /\ parsed.club_name # << >>

ResolveFaulty(team_name, queryFails) ==
    \E r \in { get_or_create_team(db, team_name, queryFails) } :
        /\ queryFails => QueryAttempted(db.teams, team_name)
        /\ Len(r.db.teams) <= MaxTeams
        /\ Call(r.commits, ResolveCall(team_name, r, queryFails))

FaultNext ==
    \/ \E n \in FaultNames : \E queryFails \in BOOLEAN : ResolveFaulty(n, queryFails)
    \/ NextCommit

FaultSpec ==
    Init /\ [][FaultNext]_vars

(***************************************************************************)
(* save_standings and import_csv_matches run one after the other           *)
(***************************************************************************)
\* the file of the latest call, 0 when the latest call had none
LastFile ==
    IF last.op \in { "save_standings", "import_csv_matches" } THEN last.file ELSE 0

\* a call on a file: the store it started from, and whether the call before it
\* was the same operation on the same file
FileCall(op, f) ==
    [op |-> op, name |-> << >>, team |-> NoTeam, file |-> f,
     before |-> db, rerun |-> (last.op = op /\ LastFile = f)]

SaveStandings(f) ==
    \E r \in { SaveStandingsSteps(db, StandingsFiles[f]) } :
        Call(r.commits, [failed |-> r.failed] @@ FileCall("save_standings", f))

ImportCsv(f) ==
    \E r \in { ImportCsvSteps(db, CsvFiles[f].path_info, CsvFiles[f].matches) } :
        /\ Len(r.db.matches) <= MaxMatches
        /\ Call(r.commits, FileCall("import_csv_matches", f))

\* the standings files that come in along with the CSV exports
SaveFiles ==
    { 1, 2, 3 }

SaveNext ==
    \/ \E f \in SaveFiles :
          Len(db.matches) + Len(StandingsFiles[f].matches) <= MaxMatches /\ SaveStandings(f)
    \/ \E f \in DOMAIN CsvFiles : ImportCsv(f)
    \/ NextCommit

SaveSpec ==
    Init /\ [][SaveNext]_vars

(***************************************************************************)
(* The scraper run again: save_standings on every standings file, in any   *)
(* order and any number of times                                           *)
(***************************************************************************)
RerunNext ==
    \/ \E f \in DOMAIN StandingsFiles :
          Len(db.matches) + Len(StandingsFiles[f].matches) <= MaxMatches /\ SaveStandings(f)
    \/ NextCommit

RerunSpec ==
    Init /\ [][RerunNext]_vars

(***************************************************************************)
(* parse_team_name and normalize_name called on their own                 *)
(***************************************************************************)
\* the most words a parsed name is put together from
MaxWords == 3

\* the words of the names: one for each pattern, a gender word, a club and the
\* two club suffixes
ParseWords ==
    { << "'", "0", "4", "G" >>, << "2", "0", "1", "3", "B" >>, << "'", "0", "4" >>,
      << "2", "0", "1", "2" >>, << "b", "o", "y", "s" >>,
      << "R", "a", "p", "i", "d", "s" >>, << "F", "C" >>, << "S", "C" >> }

\* ' '.join(words)
RECURSIVE JoinWords(_)
JoinWords(words) ==
    IF words = << >> THEN << >>
    ELSE IF Len(words) = 1 THEN words[1]
    ELSE words[1] \o << " " >> \o JoinWords(Tail(words))

\* the name of a call about to be made, and the words it is made of
ParseInit ==
    /\ db = EmptyDb
    /\ pool = [w \in Workers |-> IdleWorker]
    /\ results = [f \in DOMAIN PoolFiles |-> "queued"]
    /\ lock = NoWorker
    /\ tx = EmptyDb
    /\ \E n \in 0..MaxWords :
          \E words \in [1..n -> ParseWords] :
             last = [op |-> "parse_args", name |-> JoinWords(words), team |-> NoTeam,
                     words |-> words]

Parse ==
    /\ last.op = "parse_args"
    /\ last' = [op |-> "parse", name |-> last.name, team |-> NoTeam,
                words |-> last.words, parsed |-> parse_team_name(last.name)]
    /\ UNCHANGED << db, poolVars >>

\* normalize_name, and normalize_name of what it returned
Normalize ==
    /\ last.op = "parse_args"
    /\ last' = [op |-> "normalize", name |-> last.name, team |-> NoTeam,
                words |-> last.words, normalized |-> normalize_name(last.name),
                again |-> normalize_name(normalize_name(last.name))]
    /\ UNCHANGED << db, poolVars >>

ParseNext ==
    Parse \/ Normalize

ParseSpec ==
    ParseInit /\ [][ParseNext]_vars

(***************************************************************************)
(* calculate_age_group called on its own                                   *)
(***************************************************************************)
\* how far the birth years and season years of the calls lie around 2013, 2020
YearSpan == 12

\* season types as the callers write them, and one that is neither
SeasonTypes ==
    { << "F" >>, << "F", "a", "l", "l" >>, << "f", "a", "l", "l" >>, << "S" >>,
      << "S", "p", "r", "i", "n", "g" >>, << "W" >> }

\* the arguments of a call about to be made
AgeInit ==
    /\ db = EmptyDb
    /\ pool = [w \in Workers |-> IdleWorker]
    /\ results = [f \in DOMAIN PoolFiles |-> "queued"]
    /\ lock = NoWorker
    /\ tx = EmptyDb
    /\ \E birth_year \in (2013 - YearSpan)..(2013 + YearSpan),
          season_year \in (2020 - YearSpan)..(2020 + YearSpan),
          season_type \in SeasonTypes :
           last = [op |-> "age_args", name |-> << >>, team |-> NoTeam,
                   birth_year |-> birth_year, season_year |-> season_year,
                   season_type |-> season_type]

\* the call, and with it the calls for the same Fall, the Spring after and the
\* Fall after
CalcAge ==
    /\ last.op = "age_args"
    /\ last' = [op |-> "age", name |-> << >>, team |-> NoTeam,
                birth_year |-> last.birth_year, season_year |-> last.season_year,
                season_type |-> last.season_type,
                result |-> calculate_age_group(last.birth_year, last.season_year,
                                               last.season_type),
                fall |-> calculate_age_group(last.birth_year, last.season_year,
                                             << "F", "a", "l", "l" >>),
                spring_after |-> calculate_age_group(last.birth_year,
                                                     last.season_year + 1,
                                                     << "S", "p", "r", "i", "n", "g" >>),
                fall_after |-> calculate_age_group(last.birth_year, last.season_year + 1,
                                                   << "F", "a", "l", "l" >>)]
    /\ UNCHANGED << db, poolVars >>

AgeNext ==
    CalcAge

AgeSpec ==
    AgeInit /\ [][AgeNext]_vars

(***************************************************************************)
(* The progression report asked for while the standings come in            *)
(***************************************************************************)
\* the orders in which the writer saves the standings: along the order of
\* the age groups and of the seasons, and one that brings the second team in
\* early
TrackOrders ==
    { << 1, 3, 2, 4, 5, 6 >>, << 2, 6, 5, 1, 3, 4 >> }

\* the standings saved so far, in the order of their Division rows
TrackSaved ==
    [i \in DOMAIN db.divisions |->
        CHOOSE f \in DOMAIN TrackFiles :
            Stored(TrackFiles[f].division.division_id) = db.divisions[i].division_id]

\* save_standings of the writer, on the next standings of one of the orders;
\* it may start while a report is being read
SaveTrackFile(f) ==
    /\ ~Running
    /\ \E order \in TrackOrders :
          /\ Len(db.divisions) < Len(order)
          /\ SubSeq(order, 1, Len(db.divisions)) = TrackSaved
          /\ order[Len(db.divisions) + 1] = f
    /\ IF last.op = "tracking"
       THEN \E steps \in { Published(db, SaveStandingsSteps(db, TrackFiles[f]).commits) } :
               /\ steps # << >>
               /\ db' = steps[1]
               /\ last' = [last EXCEPT
                             !.rest = Tail(steps),
                             !.done = IF Len(steps) = 1 THEN NoCall
                                      ELSE [op |-> "save_standings", name |-> << >>,
                                            team |-> NoTeam]]
               /\ UNCHANGED poolVars
       ELSE Call(SaveStandingsSteps(db, TrackFiles[f]).commits,
                 [op |-> "save_standings", name |-> << >>, team |-> NoTeam])

\* lines 194-197: the records sorted and returned
Returned(l) ==
    [op |-> "track", name |-> l.name, team |-> l.team, before |-> l.before,
     range_given |-> l.range_given, min_age |-> l.min_age, max_age |-> l.max_age,
     teams |-> l.teams, seen |-> l.seen,
     report |-> StableSort(l.records, ProgressionBefore),
     rest |-> l.rest, done |-> l.done]

\* lines 123-191 for the next Team of teams_query: its TeamSeason rows are
\* selected from the store d, the store as committed at that moment, and the
\* Division and the Season of each row with them (a committed Division is
\* never changed, and no standings of the model rename a Season).  After the
\* last Team the report is returned.
ReadTeam(l, d) ==
    LET r == TeamProgression(d, l.teams[Len(l.seen) + 1], l.min_age, l.max_age)
        read == [l EXCEPT !.seen = Append(@, d),
                          !.records = IF r.reported THEN Append(@, r) ELSE @]
    IN  IF Len(read.seen) = Len(read.teams) THEN Returned(read) ELSE read

\* track_team_progression in a session of its own, while a writer saves
\* standings: lines 110-119.  With a Team given nothing is selected here and
\* the rows of the Team are the one read of the report; else the Teams are
\* selected from the store as committed at this moment, and the rows of each
\* Team are read later, see TrackRows.  One report between two calls of the
\* writer.
Track(team, club_name, ages) ==
    LET range == IF ages = NoRange THEN DefaultAges ELSE ages
        begun == [op |-> "tracking", name |-> club_name, team |-> team, before |-> db,
                  range_given |-> ages # NoRange,
                  min_age |-> range.min_age, max_age |-> range.max_age,
                  teams |-> TeamsQuery(db, team, club_name),
                  seen |-> << >>, records |-> << >>,
                  rest |-> IF Running THEN last.rest ELSE << >>,
                  done |-> IF Running THEN last.done ELSE NoCall]
    IN  /\ last.op \notin { "track", "tracking" }
        /\ last' = IF team # NoTeam
                   THEN [Returned([begun EXCEPT !.seen = << db >>]) EXCEPT
                           !.report = track_team_progression(db, team, club_name,
                                                             range.min_age,
                                                             range.max_age)]
                   ELSE IF begun.teams = << >> THEN Returned(begun)
                   ELSE begun
        /\ UNCHANGED << db, poolVars >>

\* the pass of the loop of line 123 for the next Team, on the store as
\* committed now: the writer may have committed since the Teams were selected
\* and since the rows of the Team before were read
TrackRows ==
    /\ last.op = "tracking"
    /\ last' = ReadTeam(last, db)
    /\ UNCHANGED << db, poolVars >>

\* find_team_progression_path, once it has found the Team of the name:
\* track_team_progression(team=team)
TrackTeam(team) ==
    Track(team, << >>, NoRange)

\* the progression command of the cli:
\* track_team_progression(team=None, club_name=club, min_age=..., max_age=...)
TrackClub(club_name, ages) ==
    Track(NoTeam, club_name, ages)

TrackNext ==
    \/ \E f \in DOMAIN TrackFiles : SaveTrackFile(f)
    \/ \E team \in DOMAIN db.teams : TrackTeam(team)
    \/ \E club_name \in TrackClubs, ages \in TrackRanges : TrackClub(club_name, ages)
    \/ TrackRows
    \/ NextCommit

TrackSpec ==
    Init /\ [][TrackNext]_vars

(***************************************************************************)
(* Manual review: get_matching_candidates called on the store that         *)
(* save_standings has filled                                               *)
(***************************************************************************)
ReviewNames ==
    { N_Nusc13B, N_Nusc13BGreen, N_Nusc13BWhite, N_RapidsFc, N_2013B }

ReviewFiles ==
    { 1, 2 }

GetCandidates(team_name) ==
    \E r \in { get_matching_candidates(db, team_name) } :
        /\ ~Running
        /\ db' = r.db
        /\ last' = [op |-> "candidates", name |-> team_name, team |-> NoTeam,
                    outcome |-> r.outcome, candidates |-> r.candidates,
                    recommended |-> r.recommended, before |-> db]
        /\ UNCHANGED poolVars

ReviewNext ==
    \/ \E f \in ReviewFiles :
          Len(db.matches) + Len(StandingsFiles[f].matches) <= MaxMatches /\ SaveStandings(f)
    \/ \E n \in ReviewNames : GetCandidates(n)
    \/ NextCommit

ReviewSpec ==
    Init /\ [][ReviewNext]_vars

(***************************************************************************)
(* The pool of parse_cached_html: each worker runs _parse_cached_file on   *)
(* one cached file at a time, and with it save_standings.  A step is one   *)
(* stretch of save_standings between two points where the store is read or *)
(* written on behalf of another worker: reads see the committed store (and *)
(* the worker's own uncommitted rows), the first write takes the store's   *)
(* write lock, commit() publishes the rows and gives the lock back.        *)
(***************************************************************************)
View(w) ==
    IF lock = w THEN tx ELSE db

CanWrite(w) ==
    lock \in {NoWorker, w}

FileOf(w) ==
    PoolFiles[pool[w].file]

TeamDataOf(w) ==
    FileOf(w).teams[pool[w].i]

\* year and season type of the file of a worker, as get_or_create_season
\* takes them
SeasonOf(w) ==
    LET season_type == SeasonTypeStr(FileOf(w).division.season_type,
                                     FileOf(w).division.season_name)
    IN  [year |-> SeasonYear(FileOf(w).division).value,
         season_type |-> season_type,
         season_type_str |-> IF season_type \in {"F", "Fall"} THEN "Fall" ELSE "Spring"]

\* the file ends in the except clause of _parse_cached_file: what the session
\* has not committed is rolled back and the file counts as failed
Failed(w) ==
    /\ results' = [results EXCEPT ![pool[w].file] = "failed"]
    /\ pool' = [pool EXCEPT ![w] = IdleWorker]
    /\ lock' = IF lock = w THEN NoWorker ELSE lock
    /\ tx' = IF lock = w THEN EmptyDb ELSE tx

\* where the worker goes on once it has its division
TeamLoop(w, division) ==
    [pool EXCEPT ![w].pc = IF FileOf(w).teams = << >> THEN "commit" ELSE "resolve",
                 ![w].division = division, ![w].i = 1]

\* the submit of the file to the pool, lines 483-535 and the look-up of the
\* Season (line 286); a ValueError of these lines ends the file in the except
\* clause of _parse_cached_file
W_Begin(w, f) ==
    /\ pool[w].pc = "idle"
    /\ results[f] = "queued"
    /\ \E started \in { [pool EXCEPT ![w] = [IdleWorker EXCEPT !.pc = "season",
                                                               !.file = f]] } :
          LET refused == \/ ~SeasonYear(PoolFiles[f].division).found
                         \/ SeasonTypeStr(PoolFiles[f].division.season_type,
                                          PoolFiles[f].division.season_name)
                                \notin {"F", "Fall", "S", "Spring"}
          IN  /\ pool' = IF refused THEN pool
                         ELSE [started EXCEPT ![w].season =
                                 SeasonGet(View(w).seasons,
                                           SeasonYear(PoolFiles[f].division).value,
                                           IF SeasonTypeStr(
                                                  PoolFiles[f].division.season_type,
                                                  PoolFiles[f].division.season_name)
                                                 \in {"F", "Fall"}
                                           THEN "Fall" ELSE "Spring")]
              /\ results' = [results EXCEPT ![f] = IF refused THEN "failed"
                                                   ELSE "running"]
    /\ UNCHANGED << db, last, lock, tx >>

\* lines 288-300: the Season found is renamed, or a new one is inserted, and
\* committed.  The look-up of line 286 found none only if none is there now:
\* see W_SeasonConflict.  A ValueError ends the file.
W_Season(w) ==
    /\ pool[w].pc = "season"
    /\ pool[w].season = NoRow
          => SeasonGet(View(w).seasons, SeasonOf(w).year, SeasonOf(w).season_type_str)
                = NoRow
    /\ \E season \in { get_or_create_season(View(w), SeasonOf(w).year,
                                              FileOf(w).division.season_name,
                                              SeasonOf(w).season_type) } :
          /\ season.db # View(w) => CanWrite(w)
          /\ db' = season.db
          /\ IF season.season = NoRow
             THEN Failed(w)
             ELSE /\ pool' = [pool EXCEPT ![w].pc = "division",
                                          ![w].season = season.season]
                  /\ lock' = IF lock = w THEN NoWorker ELSE lock
                  /\ tx' = IF lock = w THEN EmptyDb ELSE tx
                  /\ UNCHANGED results
    /\ UNCHANGED last

\* the INSERT of a Season whose (year, season_type) another worker has
\* committed since the look-up of line 286: the key of the Season raises at
\* the commit of line 300, and the file ends in the except clause
W_SeasonConflict(w) ==
    /\ pool[w].pc = "season"
    /\ pool[w].season = NoRow
    /\ CanWrite(w)
    /\ ~RequiredRefuses(FileOf(w).division.season_name)
    /\ SeasonGet(View(w).seasons, SeasonOf(w).year, SeasonOf(w).season_type_str) # NoRow
    /\ Failed(w)
    /\ UNCHANGED << db, last >>

\* lines 355-363: the select of the Division
W_Division(w) ==
    /\ pool[w].pc = "division"
    /\ \E divisions \in { DivisionsOf(View(w), FileOf(w).division.division_id,
                                       pool[w].season) } :
          pool' = IF divisions # {} THEN TeamLoop(w, Min(divisions))
                  ELSE [pool EXCEPT ![w].pc = "division_create"]
    /\ UNCHANGED << db, last, results, lock, tx >>

\* lines 365-370: the Division inserted and committed, whatever other workers
\* have committed since the select
W_DivisionCreate(w) ==
    /\ pool[w].pc = "division_create"
    /\ CanWrite(w)
    /\ \E created \in { CreateDivision(View(w), FileOf(w).division.division_id,
                                        FileOf(w).division.division_name,
                                        pool[w].season) } :
          /\ db' = created.db
          /\ IF created.division = NoRow
             THEN Failed(w)
             ELSE /\ pool' = TeamLoop(w, created.division)
                  /\ lock' = NoWorker
                  /\ tx' = EmptyDb
                  /\ UNCHANGED results
    /\ UNCHANGED last

\* what a lookup of get_or_create_team leaves behind: the Team it returns, or
\* the next lookup
Looked(w, strategy, team, next) ==
    /\ pool' = [pool EXCEPT ![w].pc = IF team # NoTeam THEN "team_season" ELSE next,
                            ![w].team = team]
    /\ last' = IF team # NoTeam \/ next = "create"
               THEN [op |-> "resolve", name |-> TeamDataOf(w).team_name,
                     team |-> team, is_new |-> team = NoTeam,
                     strategy |-> IF team # NoTeam THEN strategy ELSE "create",
                     before |-> View(w).teams, query_failed |-> FALSE,
                     prev_name |-> << >>, prev_team |-> NoTeam]
               ELSE last

\* the name parses with a birth year, a gender and a club (lines 428-434)
StructuredTried(team_name) ==
    LET parsed == parse_team_name(team_name)
    IN  /\ parsed.parsed /\ HasYear(parsed.birth_year)
        /\ parsed.gender # NoGender /\ parsed.club_name # << >>

\* lines 417-423: Team.get(canonical_name=normalized) on the store as it is
\* now.  The names of the cached files are not blank, so the look-up is never
\* refused.  With no Team found the next read is the select of
\* find_team_by_birth_year, or the select of line 443 for a name that does
\* not parse.
W_Resolve(w) ==
    /\ pool[w].pc = "resolve"
    /\ Looked(w, "exact",
              TeamGet(View(w).teams, normalize_name(TeamDataOf(w).team_name)),
              IF StructuredTried(TeamDataOf(w).team_name) THEN "structured"
              ELSE "fuzzy")
    /\ UNCHANGED << db, results, lock, tx >>

\* lines 425-440: the select of find_team_by_birth_year (196-201), on the
\* store as it is now: what other workers have committed since Team.get is
\* seen
W_Structured(w) ==
    /\ pool[w].pc = "structured"
    /\ Looked(w, "structured",
              StructuredMatch(View(w).teams, TeamDataOf(w).team_name, FALSE), "fuzzy")
    /\ UNCHANGED << db, results, lock, tx >>

\* lines 443-447: the select of every Team and the fuzzy match among them, on
\* the store as it is now
W_Fuzzy(w) ==
    /\ pool[w].pc = "fuzzy"
    /\ Looked(w, "fuzzy",
              FuzzyOrCreate(View(w).teams, TeamDataOf(w).team_name).team, "create")
    /\ UNCHANGED << db, results, lock, tx >>

\* lines 449-471: the Team inserted.  With a Club that exists, or none, the
\* one commit of line 470 publishes the Team with its club; a new Club is
\* committed inside get_or_create_club (line 395) and the Team row with it,
\* still without its club.  The names of the cached files are not empty, so
\* no row is refused.
W_Create(w) ==
    /\ pool[w].pc = "create"
    /\ CanWrite(w)
    /\ TeamGet(View(w).teams, normalize_name(TeamDataOf(w).team_name)) = NoTeam
    /\ \E inserted \in { InsertTeam(View(w), TeamDataOf(w).team_name) } :
          /\ ~inserted.refused
          /\ db' = IF inserted.club_is_new THEN inserted.db
                   ELSE SetClub(inserted.db, Len(inserted.db.teams), inserted.club)
          /\ pool' = [pool EXCEPT ![w].pc = IF inserted.club_is_new THEN "club"
                                            ELSE "team_season",
                                  ![w].team = Len(inserted.db.teams),
                                  ![w].club = inserted.club]
    /\ lock' = NoWorker
    /\ tx' = EmptyDb
    /\ UNCHANGED << last, results >>

\* lines 467-470 after a new Club: team.club = club, commit
W_SetClub(w) ==
    /\ pool[w].pc = "club"
    /\ CanWrite(w)
    /\ db' = SetClub(View(w), pool[w].team, pool[w].club)
    /\ pool' = [pool EXCEPT ![w].pc = "team_season"]
    /\ lock' = NoWorker
    /\ tx' = EmptyDb
    /\ UNCHANGED << last, results >>

\* the INSERT of a canonical_name another worker has committed since the lookup:
\* the unique constraint raises, db_session rolls back, and the except clause
\* of _parse_cached_file prints the error and returns None
W_CreateConflict(w) ==
    LET team_name == TeamDataOf(w).team_name
    IN  /\ pool[w].pc = "create"
        /\ CanWrite(w)
        /\ TeamGet(View(w).teams, normalize_name(team_name)) # NoTeam
        /\ lock' = NoWorker
        /\ tx' = EmptyDb
        /\ results' = [results EXCEPT ![pool[w].file] = "failed"]
        /\ pool' = [pool EXCEPT ![w] = IdleWorker]
        /\ UNCHANGED << db, last >>

\* lines 547-577: the TeamSeason of the team created or updated, not yet committed
W_TeamSeason(w) ==
    /\ pool[w].pc = "team_season"
    /\ CanWrite(w)
    /\ \E saved \in { SaveTeamSeason(View(w), pool[w].team, pool[w].division,
                                      TeamDataOf(w)) } :
          /\ tx' = saved.db
          /\ pool' = [pool EXCEPT
                        ![w].pc = IF pool[w].i = Len(FileOf(w).teams) THEN "commit"
                                  ELSE "resolve",
                        ![w].i = pool[w].i + 1,
                        ![w].team = NoTeam,
                        ![w].team_seasons = DictSet(@, TeamDataOf(w).team_name,
                                                    saved.team_season)]
    /\ lock' = w
    /\ UNCHANGED << db, last, results >>

\* line 579: commit
W_Commit(w) ==
    /\ pool[w].pc = "commit"
    /\ db' = View(w)
    /\ lock' = IF lock = w THEN NoWorker ELSE lock
    /\ tx' = IF lock = w THEN EmptyDb ELSE tx
    /\ pool' = [pool EXCEPT ![w].pc = IF FileOf(w).matches = << >> THEN "final"
                                      ELSE "match",
                            ![w].i = 1]
    /\ UNCHANGED << last, results >>

\* lines 581-633: one pass of the match loop, the Match not yet committed.
\* Both sides are in the team_seasons dict, so the pass resolves no name; a
\* Match the store refuses ends the file.
W_Match(w) ==
    /\ pool[w].pc = "match"
    /\ CanWrite(w)
    /\ { FileOf(w).matches[pool[w].i].home_team, FileOf(w).matches[pool[w].i].away_team }
          \subseteq DOMAIN pool[w].team_seasons
    /\ \E saved \in { SaveMatch(Acc(View(w), << db >>, pool[w].team_seasons, FALSE),
                                  pool[w].division, FileOf(w).matches[pool[w].i]) } :
          IF saved.failed
          THEN /\ results' = [results EXCEPT ![pool[w].file] = "failed"]
               /\ pool' = [pool EXCEPT ![w] = IdleWorker]
               /\ lock' = NoWorker
               /\ tx' = EmptyDb
          ELSE /\ tx' = saved.db
               /\ lock' = w
               /\ pool' = [pool EXCEPT
                             ![w].pc = IF pool[w].i = Len(FileOf(w).matches)
                                       THEN "final" ELSE "match",
                             ![w].i = pool[w].i + 1]
               /\ UNCHANGED results
    /\ UNCHANGED << db, last >>

\* line 635: commit, and the file is saved
W_Final(w) ==
    /\ pool[w].pc = "final"
    /\ db' = View(w)
    /\ lock' = IF lock = w THEN NoWorker ELSE lock
    /\ tx' = IF lock = w THEN EmptyDb ELSE tx
    /\ results' = [results EXCEPT ![pool[w].file] = "saved"]
    /\ pool' = [pool EXCEPT ![w] = IdleWorker]
    /\ UNCHANGED last

PoolNext ==
    \E w \in Workers :
        \/ \E f \in DOMAIN PoolFiles : W_Begin(w, f)
        \/ W_Season(w)
        \/ W_SeasonConflict(w)
        \/ W_Division(w)
        \/ W_DivisionCreate(w)
        \/ W_Resolve(w)
        \/ W_Structured(w)
        \/ W_Fuzzy(w)
        \/ W_Create(w)
        \/ W_SetClub(w)
        \/ W_CreateConflict(w)
        \/ W_TeamSeason(w)
        \/ W_Commit(w)
        \/ W_Match(w)
        \/ W_Final(w)

PoolSpec ==
    Init /\ [][PoolNext]_vars

(***************************************************************************)
(* Properties of the sequential interface                                  *)
(***************************************************************************)
\* what each strategy yields for a name on a list of teams, each taken alone
StrategyResults(teams, team_name) ==
    LET parsed == parse_team_name(team_name)
    IN  [exact      |-> TeamGet(teams, normalize_name(team_name)),
         structured |-> IF /\ parsed.parsed /\ HasYear(parsed.birth_year)
                           /\ parsed.gender # NoGender /\ parsed.club_name # << >>
                        THEN find_team_by_birth_year(teams, parsed.birth_year, parsed.gender,
                                                     parsed.club_name, parsed.designation,
                                                     FALSE)
                        ELSE NoTeam,
         fuzzy      |-> find_matching_team(team_name, teams)]

\* C1: after any sequence of resolve calls, no two Team rows have the same
\* canonical_name.
C1_UniqueCanonicalName ==
    \A i \in DOMAIN db.teams : \A j \in DOMAIN db.teams :
        db.teams[i].canonical_name = db.teams[j].canonical_name => i = j

\* a name was resolved again whose canonical name is already one of several stored
C1_Witness ==
    /\ last.op = "resolve"
    /\ Len(last.before) >= 2
    /\ TeamGet(last.before, normalize_name(last.name)) # NoTeam
    /\ Len(db.teams) = Len(last.before)

\* the second of two calls in a row returned the Team of the first, reported
\* is_new = FALSE and created no Team
LastRepeats ==
    /\ last.team \in DOMAIN db.teams
    /\ last.team = last.prev_team
    /\ ~last.is_new
    /\ db.teams = last.before

\* C2: resolving any raw name twice in a row returns the same Team both times;
\* the second call reports is_new = FALSE and creates no Team.
C2_ResolveTwice ==
    (last.op = "resolve" /\ last.prev_name = last.name) => LastRepeats

\* the second of two calls in a row on a name that the structured match resolves
C2_Witness ==
    /\ last.op = "resolve"
    /\ last.prev_name = last.name
    /\ last.strategy = "structured"
    /\ last.team = last.prev_team

\* the latest call returned a Team; is_new is TRUE exactly when the exact, the
\* structured and the fuzzy strategy all yielded nothing, and then exactly one
\* Team was added, whose canonical_name is the normalized raw name; otherwise
\* the Team returned existed before and none was added
LastResolves ==
    LET found   == StrategyResults(last.before, last.name)
        nothing == /\ found.exact = NoTeam
                   /\ found.structured = NoTeam
                   /\ found.fuzzy = NoTeam
    IN  /\ last.team \in DOMAIN db.teams
        /\ last.is_new <=> nothing
        /\ last.is_new
             => /\ Len(db.teams) = Len(last.before) + 1
                /\ SubSeq(db.teams, 1, Len(last.before)) = last.before
                /\ last.team = Len(db.teams)
                /\ db.teams[last.team].canonical_name = normalize_name(last.name)
        /\ ~last.is_new
             => /\ db.teams = last.before
                /\ last.team \in DOMAIN last.before

\* C4: every resolve call on any raw name returns a Team; is_new is TRUE
\* exactly when the exact, the structured and the fuzzy strategy all yielded
\* nothing, and then exactly one Team was added, whose canonical_name is the
\* normalized raw name; otherwise the Team returned existed before and none
\* was added.
C4_AlwaysResolves ==
    last.op = "resolve" => LastResolves

\* a call on a populated store for which every strategy yielded nothing
C4_Witness ==
    /\ last.op = "resolve"
    /\ Len(last.before) >= 2
    /\ last.is_new
    /\ last.team = Len(last.before) + 1

\* C8: the strategies are tried in the order exact, structured, fuzzy, each only
\* if the previous one yielded nothing: an exact Team is returned whatever the
\* others yield, and a structured candidate is returned even if a fuzzy
\* candidate scores at least 85.
C8_StrategyOrder ==
    last.op = "resolve"
        => LET found == StrategyResults(last.before, last.name)
           IN  /\ found.exact # NoTeam
                    => last.team = found.exact /\ last.strategy = "exact"
               /\ (found.exact = NoTeam /\ found.structured # NoTeam)
                    => last.team = found.structured /\ last.strategy = "structured"
               /\ (found.exact = NoTeam /\ found.structured = NoTeam
                     /\ found.fuzzy # NoTeam)
                    => last.team = found.fuzzy /\ last.strategy = "fuzzy"

\* the structured candidate was returned although the fuzzy match picks another Team
C8_Witness ==
    /\ last.op = "resolve"
    /\ last.strategy = "structured"
    /\ find_matching_team(last.name, last.before) # NoTeam
    /\ find_matching_team(last.name, last.before) # last.team

\* C10: once a Team was created from a name with club, birth year and gender
\* but no designation, a later name with the same club, birth year and gender
\* plus a designation resolves to that Team, with is_new = FALSE.
C10_DesignationAddedLater ==
    last.op = "resolve"
        => LET parsed == parse_team_name(last.name)
           IN  \A t \in DOMAIN last.before :
                   ( /\ parsed.parsed /\ HasYear(parsed.birth_year)
                     /\ parsed.gender # NoGender /\ parsed.club_name # << >>
                     /\ parsed.designation # << >>
                     /\ last.before[t].birth_year = parsed.birth_year
                     /\ last.before[t].gender = parsed.gender
                     /\ last.before[t].base_club_name = normalize_name(parsed.club_name)
                     /\ last.before[t].designation = << >> )
                   => last.team = t /\ ~last.is_new

\* "NUSC 2013B Green" resolved after "NUSC 2013B" had been created
C10_Witness ==
    /\ last.op = "resolve"
    /\ last.name = N_Nusc13BGreen
    /\ \E t \in DOMAIN last.before :
          /\ last.before[t].canonical_name = normalize_name(N_Nusc13B)
          /\ last.before[t].designation = << >>
          /\ last.team = t
    /\ ~last.is_new

\* the Team whose canonical name is the normalized name of the latest call
LastExact ==
    IF \E t \in DOMAIN last.before :
           last.before[t].canonical_name = normalize_name(last.name)
    THEN CHOOSE t \in DOMAIN last.before :
             last.before[t].canonical_name = normalize_name(last.name)
    ELSE NoTeam

\* C11 as stated: "Rapids FC 15B Black", resolved again unchanged once its Team
\* exists, resolves to that Team and the structured match decides it.
C11_CrossSeasonStructured ==
    (last.op = "resolve" /\ last.name = N_Rapids15BBlack /\ LastExact # NoTeam)
        => last.team = LastExact /\ last.strategy = "structured"

\* C11 amended: "Rapids FC 15B Black", resolved again unchanged once its Team
\* exists, resolves to that Team with is_new = FALSE, and the exact match
\* decides it: the name does not parse, so no structured match is tried.
C11_CrossSeasonExact ==
    (last.op = "resolve" /\ last.name = N_Rapids15BBlack /\ LastExact # NoTeam)
        => /\ last.team = LastExact
           /\ ~last.is_new
           /\ last.strategy = "exact"
           /\ ~parse_team_name(last.name).parsed

\* "Rapids FC 15B Black" resolved a second time, other teams stored besides its own
C11_Witness ==
    /\ last.op = "resolve"
    /\ last.name = N_Rapids15BBlack
    /\ LastExact # NoTeam
    /\ last.team = LastExact
    /\ Len(last.before) >= 2

\* the rounded score of the best choice for the name of the latest call
LastBestScore ==
    BestScore(Scores(normalize_name(last.name), last.before))

\* C12: when neither the exact nor the structured match finds a Team, the
\* best-scoring Team is returned with is_new = FALSE exactly when its score is
\* at least 85; at 84 or less a new Team is created.
C12_FuzzyBoundary ==
    ( /\ last.op = "resolve" /\ last.before # << >>
      /\ LastExact = NoTeam
      /\ StructuredMatch(last.before, last.name, FALSE) = NoTeam )
        => /\ LastBestScore >= 85
                => /\ ~last.is_new /\ last.strategy = "fuzzy"
                   /\ last.team = BestChoice(Scores(normalize_name(last.name),
                                                    last.before))
           /\ LastBestScore <= 84
                => last.is_new /\ last.team = Len(last.before) + 1

\* a fuzzy match at a score of exactly 85, in a store that also holds the two
\* teams whose names score 84: the second of them was created, not matched
C12_Witness ==
    /\ last.op = "resolve"
    /\ last.strategy = "fuzzy"
    /\ LastBestScore = 85
    /\ TeamGet(db.teams, normalize_name(N_LakeshoreUnited)) # NoTeam
    /\ TeamGet(db.teams, normalize_name(N_LakeshoreUnitedGreen)) # NoTeam

\* C13: a resolve call that returns an existing Team leaves every Team row as
\* it was: canonical_name, birth_year, gender, designation and club.
C13_AttributesKept ==
    (last.op = "resolve" /\ ~last.is_new)
        => /\ Len(db.teams) = Len(last.before)
           /\ \A t \in DOMAIN last.before :
                 /\ db.teams[t].canonical_name = last.before[t].canonical_name
                 /\ db.teams[t].birth_year = last.before[t].birth_year
                 /\ db.teams[t].gender = last.before[t].gender
                 /\ db.teams[t].designation = last.before[t].designation
                 /\ db.teams[t].club = last.before[t].club

\* a name with a designation resolved to a Team stored without one
C13_Witness ==
    /\ last.op = "resolve"
    /\ last.strategy = "structured"
    /\ parse_team_name(last.name).designation # << >>
    /\ db.teams[last.team].designation = << >>

\* C25: a name resolves to the Team it resolved to the first time, whatever
\* other names were resolved in between.
C25_ResolutionStable ==
    last.op = "resolve" => last.team = last.first[last.name]

\* the store and the first resolutions after the names are resolved in order
RECURSIVE ResolveInOrder(_, _, _)
ResolveInOrder(acc, names, i) ==
    IF i > Len(names) THEN acc
    ELSE The({ ResolveInOrder([db |-> r.db,
                               first |-> DictSet(acc.first, names[i], r.team)],
                              names, i + 1) :
               r \in { get_or_create_team(acc.db, names[i], FALSE) } })

\* the outcome of one order of the names
ReferenceOrder ==
    ResolveInOrder([db |-> EmptyDb, first |-> << >>],
                   << N_LakeshorePremier, N_LakeshorePremierWhite,
                      N_LakeshorePremierWhites, N_LakeshoreUnited,
                      N_LakeshoreUnitedGreen >>, 1)

\* C26: once every name of the set has been resolved once, the number of Teams
\* and the grouping of the names onto Teams are those of any other order.
C26_OrderIndependent ==
    (last.op = "resolve" /\ DOMAIN last.first = FuzzyNames
       /\ last.calls = Cardinality(FuzzyNames))
        => The({ /\ Len(db.teams) = Len(reference.db.teams)
                 /\ \A n1, n2 \in FuzzyNames :
                       (last.first[n1] = last.first[n2])
                           <=> (reference.first[n1] = reference.first[n2]) :
                 reference \in { ReferenceOrder } })

\* birth year, gender and normalized club of a Team row are all set
HasTriple(team) ==
    HasYear(team.birth_year) /\ team.gender # NoGender /\ team.base_club_name # << >>

\* the Team rows, before the latest call, with the triple the name parses to
LastTripleTeams ==
    { t \in DOMAIN last.before :
        /\ parse_team_name(last.name).parsed
        /\ HasTriple(last.before[t])
        /\ last.before[t].birth_year = parse_team_name(last.name).birth_year
        /\ last.before[t].gender = parse_team_name(last.name).gender
        /\ parse_team_name(last.name).club_name # << >>
        /\ last.before[t].base_club_name
              = normalize_name(parse_team_name(last.name).club_name) }

\* C24: no two Teams have the same (birth_year, gender, normalized club) with
\* all three set, and a name that parses to the triple of a stored Team
\* resolves to an existing Team.
C24_OneTeamPerTriple ==
    /\ \A t1, t2 \in DOMAIN db.teams :
          ( /\ HasTriple(db.teams[t1])
            /\ db.teams[t1].birth_year = db.teams[t2].birth_year
            /\ db.teams[t1].gender = db.teams[t2].gender
            /\ db.teams[t1].base_club_name = db.teams[t2].base_club_name ) => t1 = t2
    /\ (last.op = "resolve" /\ LastTripleTeams # {}) => ~last.is_new

\* "NUSC 2013B Green" resolved onto the Team of its triple while the Girls team
\* of the same club and year is a Team of its own
C24_Witness ==
    /\ last.op = "resolve"
    /\ last.name = N_Nusc13BGreen
    /\ LastTripleTeams # {}
    /\ last.team \in LastTripleTeams
    /\ \E t \in DOMAIN db.teams :
          /\ db.teams[t].gender = "Girls"
          /\ db.teams[t].base_club_name = db.teams[last.team].base_club_name
          /\ db.teams[t].birth_year = db.teams[last.team].birth_year

(***************************************************************************)
(* Properties of save_standings, of import_csv_matches and of the pool     *)
(***************************************************************************)
\* C3: after any sequence of save_standings and import_csv_matches calls, at
\* most one TeamSeason row exists for a (team, division) pair.
C3_OneTeamSeasonPerDivision ==
    \A i \in DOMAIN db.team_seasons : \A j \in DOMAIN db.team_seasons :
        ( /\ db.team_seasons[i].team = db.team_seasons[j].team
          /\ db.team_seasons[i].division = db.team_seasons[j].division ) => i = j

\* C5: when two workers of the pool resolve the same unseen name, no Team is
\* duplicated and both workers complete: no file's save ends in a failure.
C5_BothWorkersComplete ==
    /\ \A i \in DOMAIN db.teams : \A j \in DOMAIN db.teams :
          db.teams[i].canonical_name = db.teams[j].canonical_name => i = j
    /\ \A f \in DOMAIN results : results[f] # "failed"

\* C15: get_matching_candidates leaves the store as it found it, Teams, Clubs
\* and TeamSeasons included, and no Team appears twice in the list it returns.
C15_CandidatesReadOnly ==
    last.op = "candidates"
        => /\ db = last.before
           /\ \A i, j \in DOMAIN last.candidates :
                 last.candidates[i].team = last.candidates[j].team => i = j

\* a call for a name that has no Team of its own, on a store with Teams, Clubs
\* and TeamSeasons
C15_Witness ==
    /\ last.op = "candidates"
    /\ last.name = N_Nusc13BWhite
    /\ TeamGet(db.teams, normalize_name(last.name)) = NoTeam
    /\ Len(db.teams) >= 2
    /\ Len(db.clubs) >= 2
    /\ Len(db.team_seasons) >= 2

\* the Team whose canonical name is the normalized name the candidates were
\* asked for
LastExactCandidate ==
    TeamGet(last.before.teams, normalize_name(last.name))

\* C16: every candidate carries the confidence of its match type (exact 100,
\* structured 100 or 95, base identifier 85 or 90, fuzzy its score of at least
\* 75), the list is in non-increasing order of confidence, and a Team stored
\* under the normalized name is listed as the exact match with confidence 100.
C16_ConfidenceByMatchType ==
    last.op = "candidates"
        => /\ \A i \in DOMAIN last.candidates :
                 \/ /\ last.candidates[i].match_type = "exact_name"
                    /\ last.candidates[i].confidence = 100
                 \/ /\ last.candidates[i].match_type = "birth_year_club"
                    /\ last.candidates[i].confidence \in { 95, 100 }
                 \/ /\ last.candidates[i].match_type = "base_identifier"
                    /\ last.candidates[i].confidence \in { 85, 90 }
                 \/ /\ last.candidates[i].match_type = "fuzzy"
                    /\ last.candidates[i].confidence >= 75
           /\ \A i, j \in DOMAIN last.candidates :
                 i < j => last.candidates[i].confidence >= last.candidates[j].confidence
           /\ LastExactCandidate # NoTeam
                 => \E i \in DOMAIN last.candidates :
                       /\ last.candidates[i].team = LastExactCandidate
                       /\ last.candidates[i].match_type = "exact_name"
                       /\ last.candidates[i].confidence = 100

\* C17: with no candidate there is no recommendation; otherwise the
\* recommendation is a candidate of the highest confidence, and a Team stored
\* under the normalized name, being the exact match, is the one recommended.
C17_RecommendedIsBest ==
    last.op = "candidates"
        => /\ last.candidates = << >> /\ LastExactCandidate = NoTeam
                 => last.recommended = NoRecommendation
           /\ last.candidates # << >>
                 => /\ last.recommended + 1 \in DOMAIN last.candidates
                    /\ \A j \in DOMAIN last.candidates :
                          last.candidates[j].confidence
                              <= last.candidates[last.recommended + 1].confidence
           /\ LastExactCandidate # NoTeam
                 => /\ last.recommended + 1 \in DOMAIN last.candidates
                    /\ last.candidates[last.recommended + 1].team = LastExactCandidate

\* C18: get_matching_candidates returns a result for every raw name and never
\* ends in an error, whether the name parses with a club, without one, or not
\* at all.
C18_NeverFails ==
    last.op = "candidates" => last.outcome = "ok"

\* what get_or_create_team would settle on in the store the candidates were
\* collected from
LastResolved ==
    ResolveExisting(last.before.teams, last.name, FALSE)

\* C27: the resolver and the candidate generator agree: a name that
\* get_or_create_team resolves to an existing Team has that Team among the
\* candidates and as the recommended one, and a name for which the generator
\* returns no candidate is one get_or_create_team creates a Team for.
C27_ResolverAgrees ==
    last.op = "candidates"
        => /\ LastResolved.strategy # "create"
                 => /\ LastResolved.team \in CandidateTeams(last.candidates)
                    /\ last.recommended + 1 \in DOMAIN last.candidates
                    /\ last.candidates[last.recommended + 1].team = LastResolved.team
           /\ (last.outcome = "ok" /\ last.candidates = << >>)
                 => LastResolved.strategy = "create"

\* the store the report read the TeamSeason rows of a Team from: the store as
\* committed when the loop came to the Team
SeenOf(team) ==
    last.seen[CHOOSE i \in DOMAIN last.teams : last.teams[i] = team]

\* the TeamSeason rows of a Team as the report read them
RowsSeen(team) ==
    { r \in DOMAIN SeenOf(team).team_seasons : SeenOf(team).team_seasons[r].team = team }

\* the age groups, inside a range, of the TeamSeason rows of a team as the
\* report read them
WindowsIn(team, min_age, max_age) ==
    { RowAgeGroup(SeenOf(team), ts) :
        ts \in { r \in RowsSeen(team) : RowCounts(SeenOf(team), r, min_age, max_age) } }

\* the age groups, inside the default range, of the TeamSeason rows of a team
\* as the report read them
WindowsOf(team) ==
    WindowsIn(team, 10, 14)

\* C19: whatever Team, club and range the report is asked for, and whatever
\* is committed while it reads, every record of it belongs to a team whose
\* rows, as read, map to at least two distinct age-group windows inside the
\* range, has at least two progression entries with age_groups_played equal
\* to their number, and has no appearance from a division whose name carries
\* no age-group token.
C19_TwoWindows ==
    last.op = "track"
        => \A k \in DOMAIN last.report :
              /\ \E i \in DOMAIN last.teams : last.teams[i] = last.report[k].team_id
              /\ Cardinality(WindowsIn(last.report[k].team_id,
                                       last.min_age, last.max_age)) >= 2
              /\ Len(last.report[k].progression) >= 2
              /\ last.report[k].age_groups_played = Len(last.report[k].progression)
              /\ \A i, j \in DOMAIN last.report[k].progression :
                    i # j => << last.report[k].progression[i].age_min,
                                last.report[k].progression[i].age_max >>
                             # << last.report[k].progression[j].age_min,
                                  last.report[k].progression[j].age_max >>
              /\ \A i \in DOMAIN last.report[k].progression :
                    \A a \in DOMAIN last.report[k].progression[i].appearances :
                        extract_age_group(
                            SeenOf(last.report[k].team_id).divisions[
                                last.report[k].progression[i].appearances[a].division_id
                            ].division_name)
                        = << last.report[k].progression[i].age_min,
                             last.report[k].progression[i].age_max >>

\* a report asked for a club and the range U11-U16, with one record: the team
\* reported has three windows and a row in a division without token, and a
\* second team of the club, with a single window, is left out; the writer
\* committed between the reads of the two teams
C19_Witness ==
    /\ last.op = "track"
    /\ last.range_given /\ last.min_age = 11
    /\ last.name # << >> /\ last.team = NoTeam
    /\ Len(last.report) = 1
    /\ last.report[1].age_groups_played = 3
    /\ \E ts \in RowsSeen(last.report[1].team_id) :
          RowAgeGroup(SeenOf(last.report[1].team_id), ts) = NoAgeGroup
    /\ Len(last.teams) = 2
    /\ last.seen[1] # last.seen[2]
    /\ \E i \in DOMAIN last.teams :
          Cardinality(WindowsIn(last.teams[i], last.min_age, last.max_age)) = 1

\* C29: with the default range no progression entry lies outside U10-U14, a
\* team without two windows inside that range is not reported however many
\* windows it has outside, and total_seasons counts every TeamSeason row of the
\* team as read, the dropped ones too.
C29_DefaultRange ==
    (last.op = "track" /\ ~last.range_given)
        => /\ \A k \in DOMAIN last.report :
                 /\ \A i \in DOMAIN last.report[k].progression :
                       /\ last.report[k].progression[i].age_max >= 10
                       /\ last.report[k].progression[i].age_min <= 14
                 /\ \E i \in DOMAIN last.teams : last.teams[i] = last.report[k].team_id
                 /\ last.report[k].total_seasons
                       = Cardinality(RowsSeen(last.report[k].team_id))
           /\ \A i \in DOMAIN last.teams :
                 Cardinality(WindowsOf(last.teams[i])) < 2
                     => \A k \in DOMAIN last.report :
                           last.report[k].team_id # last.teams[i]

\* a report that leaves out a team with the windows U15/16 and U15 and counts
\* five seasons for a team with three appearances
C29_Witness ==
    /\ last.op = "track"
    /\ ~last.range_given
    /\ Len(last.report) = 1
    /\ last.report[1].total_seasons = 5
    /\ Len(last.report[1].progression[1].appearances)
          + Len(last.report[1].progression[2].appearances) = 3
    /\ \E i \in DOMAIN last.teams :
          /\ WindowsOf(last.teams[i]) = {}
          /\ { RowAgeGroup(SeenOf(last.teams[i]), r) : r \in RowsSeen(last.teams[i]) }
                = { << 15, 16 >>, << 15, 15 >> }

\* C20: whatever Team, club and range the report is asked for, in every
\* record the windows are in ascending order of minimum age, those of the
\* same minimum age in ascending order of maximum age, and the appearances of
\* a window are in the order of (year, season_type).
C20_ReportOrdered ==
    last.op = "track"
        => \A k \in DOMAIN last.report :
              /\ \A i, j \in DOMAIN last.report[k].progression :
                    i < j =>
                      \/ last.report[k].progression[i].age_min
                             < last.report[k].progression[j].age_min
                      \/ /\ last.report[k].progression[i].age_min
                               = last.report[k].progression[j].age_min
                         /\ last.report[k].progression[i].age_max
                               < last.report[k].progression[j].age_max
              /\ \A i \in DOMAIN last.report[k].progression :
                    \A a, b \in DOMAIN last.report[k].progression[i].appearances :
                        a < b =>
                          \/ last.report[k].progression[i].appearances[a].year
                                 < last.report[k].progression[i].appearances[b].year
                          \/ /\ last.report[k].progression[i].appearances[a].year
                                   = last.report[k].progression[i].appearances[b].year
                             /\ << last.report[k].progression[i].appearances[a].season_type,
                                    last.report[k].progression[i].appearances[b].season_type >>
                                   \in { << "Fall", "Fall" >>, << "Fall", "Spring" >>,
                                         << "Spring", "Spring" >> }

\* a report of two records on rows inserted against the order: of one team the
\* U12 row before the U11 rows, and the U11 row of Spring 2025 before the one
\* of Fall 2025; of the other the U15/16 row before the U15 row, which the
\* writer committed after the report had read the first team
C20_Witness ==
    /\ last.op = "track"
    /\ Len(last.report) = 2
    /\ last.seen[1] # last.seen[2]
    /\ \E k \in DOMAIN last.report :
          /\ Len(last.report[k].progression[1].appearances) = 2
          /\ \E r1, r2, r3 \in RowsSeen(last.report[k].team_id) :
                /\ r1 < r2 /\ r2 < r3
                /\ RowAgeGroup(SeenOf(last.report[k].team_id), r1) = << 12, 12 >>
                /\ RowAgeGroup(SeenOf(last.report[k].team_id), r2) = << 11, 11 >>
                /\ RowAgeGroup(SeenOf(last.report[k].team_id), r3) = << 11, 11 >>
                /\ Appearance(SeenOf(last.report[k].team_id), r2).season_type = "Spring"
                /\ Appearance(SeenOf(last.report[k].team_id), r3).season_type = "Fall"
                /\ Appearance(SeenOf(last.report[k].team_id), r2).year
                      = Appearance(SeenOf(last.report[k].team_id), r3).year
    /\ \E k \in DOMAIN last.report :
          /\ last.report[k].progression[1].age_min = last.report[k].progression[2].age_min
          /\ \E r1, r2 \in RowsSeen(last.report[k].team_id) :
                /\ r1 < r2
                /\ RowAgeGroup(SeenOf(last.report[k].team_id), r1) = << 15, 16 >>
                /\ RowAgeGroup(SeenOf(last.report[k].team_id), r2) = << 15, 15 >>

\* C21: the Spring of year y+1 gives the age group of the Fall of year y, and
\* when the Fall of y and the Fall of y+1 both give one, the later is exactly
\* one age group higher.
C21_SpringContinuesFall ==
    last.op = "age"
        => /\ last.spring_after = last.fall
           /\ (last.fall # NoAgeGroup /\ last.fall_after # NoAgeGroup)
                 => last.fall_after = << last.fall[1] + 1, last.fall[2] + 1 >>

\* birth year 2013: U8 in Fall 2020 and in Spring 2021, U9 in Fall 2021
C21_Witness ==
    /\ last.op = "age"
    /\ last.birth_year = 2013
    /\ last.season_year = 2020
    /\ last.fall = << 8, 8 >>
    /\ last.spring_after = << 8, 8 >>
    /\ last.fall_after = << 9, 9 >>

\* the season type of the latest call read as the code reads it
LastIsSpring ==
    last.season_type \in { << "S" >>, << "S", "p", "r", "i", "n", "g" >> }

\* the U-age the latest call has to arrive at
LastUAge ==
    (IF LastIsSpring THEN last.season_year - 1 ELSE last.season_year)
        - last.birth_year + 1

\* C22: for Fall and Spring calls the result is (u, u) with
\* u = cutoffYear - birthYear + 1 when 5 <= u <= 19 and absent exactly when u is
\* outside that range; every call returns.
C22_TotalInRange ==
    (last.op = "age" /\ last.season_type # << "W" >>)
        => /\ (5 <= LastUAge /\ LastUAge <= 19)
                 => last.result = << LastUAge, LastUAge >>
           /\ (LastUAge < 5 \/ LastUAge > 19) => last.result = NoAgeGroup

\* a Spring call that lands on U19, the last age group there is
C22_Witness ==
    /\ last.op = "age"
    /\ LastIsSpring
    /\ LastUAge = 19
    /\ last.result = << 19, 19 >>

\* the latest parsed name holds the word
LastHasWord(word) ==
    \E i \in DOMAIN last.words : last.words[i] = word

\* C23: the first pattern in the order apostrophe year + gender, four-digit
\* year + gender, apostrophe year, bare year that matches anywhere in the name
\* decides birth year and gender, wherever the others match; a name no pattern
\* matches has parsed = FALSE and club_name, birth_year, gender and designation
\* unset.
C23_PatternPriority ==
    last.op = "parse"
        => IF LastHasWord(<< "'", "0", "4", "G" >>)
           THEN /\ last.parsed.parsed
                /\ last.parsed.birth_year = 2004
                /\ last.parsed.gender = "Girls"
           ELSE IF LastHasWord(<< "2", "0", "1", "3", "B" >>)
           THEN /\ last.parsed.parsed
                /\ last.parsed.birth_year = 2013
                /\ last.parsed.gender = "Boys"
           ELSE IF LastHasWord(<< "'", "0", "4" >>)
           THEN /\ last.parsed.parsed
                /\ last.parsed.birth_year = 2004
                /\ last.parsed.gender = IF LastHasWord(<< "b", "o", "y", "s" >>)
                                         THEN "Boys" ELSE NoGender
           ELSE IF LastHasWord(<< "2", "0", "1", "2" >>)
           THEN /\ last.parsed.parsed
                /\ last.parsed.birth_year = 2012
                /\ last.parsed.gender = IF LastHasWord(<< "b", "o", "y", "s" >>)
                                         THEN "Boys" ELSE NoGender
           ELSE /\ ~last.parsed.parsed
                /\ last.parsed.club_name = << >>
                /\ last.parsed.birth_year = NoYear
                /\ last.parsed.gender = NoGender
                /\ last.parsed.designation = << >>

\* "2012 2013B '04G": the apostrophe pattern matches last in the name and
\* decides, the words before it are the club name
C23_Witness ==
    /\ last.op = "parse"
    /\ last.words = << << "2", "0", "1", "2" >>, << "2", "0", "1", "3", "B" >>,
                       << "'", "0", "4", "G" >> >>
    /\ last.parsed.birth_year = 2004
    /\ last.parsed.club_name = << "2", "0", "1", "2", " ", "2", "0", "1", "3", "B" >>

\* C28: normalize_name is idempotent: normalizing what it returned gives the
\* same name again, also for names that end in several fc/sc words.
C28_NormalizeIdempotent ==
    last.op = "normalize" => last.again = last.normalized

\* the kinds of rows that are created lazily and kept
Kept(d) ==
    [seasons |-> d.seasons, divisions |-> d.divisions, clubs |-> d.clubs,
     teams |-> d.teams, team_seasons |-> d.team_seasons]

\* C14: save_standings run a second time in a row on the same standings data
\* leaves the Season, Division, Club, Team and TeamSeason rows as the first run
\* left them, and no operation removes a row of these kinds.
C14_RerunConverges ==
    /\ (last.op = "save_standings" /\ last.rerun) => Kept(db) = Kept(last.before)
    /\ last.op \in { "save_standings", "import_csv_matches" }
          => \A k \in DOMAIN Kept(db) : Len(Kept(db)[k]) >= Len(Kept(last.before)[k])

\* the Division rows with the division_id and the season of the latest file
LastDivisions ==
    { i \in DOMAIN db.divisions :
        /\ db.divisions[i].division_id = StandingsFiles[last.file].division.division_id
        /\ db.seasons[db.divisions[i].season].season_name
              = StandingsFiles[last.file].division.season_name }

\* C30: a Division is identified by division_id and season: after
\* save_standings there is exactly one Division row with the file's
\* division_id in its season, also when the id is empty; a request with another
\* name leaves the name first recorded; the TeamSeasons of the file are
\* attached to that one row.
C30_DivisionByIdAndSeason ==
    last.op = "save_standings" =>
        /\ Cardinality(LastDivisions) = 1
        /\ \A i \in LastDivisions :
              /\ i \in DOMAIN last.before.divisions
                    => db.divisions[i] = last.before.divisions[i]
              /\ \E ts \in DOMAIN db.team_seasons : db.team_seasons[ts].division = i
              /\ \A ts \in DOMAIN db.team_seasons :
                    ts > Len(last.before.team_seasons)
                       => db.team_seasons[ts].division = i

\* C6: save_standings is atomic: no committed Team is visible without a
\* committed TeamSeason of it.
C6_SaveAtomic ==
    \A t \in DOMAIN db.teams :
        \E i \in DOMAIN db.team_seasons : db.team_seasons[i].team = t

\* C7: a resolve call whose structured query failed ends in an error: it is
\* not turned into a fuzzy match or into the creation of a Team.
C7_FailureSurfaced ==
    (last.op = "resolve" /\ last.query_failed)
        => last.strategy \notin {"exact", "structured", "fuzzy", "create"}

\* the teams a structured match on the name of the latest call chooses from
LastCandidates ==
    Candidates(last.before, parse_team_name(last.name).birth_year,
               parse_team_name(last.name).gender,
               normalize_name(parse_team_name(last.name).club_name))

\* C9: among several structured candidates, the Team returned is the first
\* whose designation equals the parsed one, case ignored; with no such
\* candidate, or no parsed designation, it is the first candidate.
C9_StructuredTieBreak ==
    (last.op = "resolve" /\ last.strategy = "structured")
        => LET designation == parse_team_name(last.name).designation
               same == { i \in LastCandidates :
                           /\ last.before[i].designation # << >>
                           /\ Upper(last.before[i].designation) = Upper(designation) }
           IN  /\ LastCandidates # {}
               /\ last.team = IF designation # << >> /\ same # {} THEN Min(same)
                               ELSE Min(LastCandidates)

\* a structured match among two candidates that returned the second, whose
\* designation is the parsed one
C9_Witness ==
    /\ last.op = "resolve"
    /\ last.strategy = "structured"
    /\ Cardinality(LastCandidates) >= 2
    /\ last.team # Min(LastCandidates)

====
